---- MODULE Spec2Model ----
(***************************************************************************)
(* A model of the databoard crate: key syntax helpers and Remappings       *)
(* (src/src/remappings.rs), EntryData and the entry guards                 *)
(* (src/src/entry.rs), Database (src/src/database.rs) and the routing      *)
(* layer DataboardInner (src/src/databoard.rs).                            *)
(*                                                                         *)
(* Strings are sequences of one-character strings, so that strip_prefix,   *)
(* strip_suffix, starts_with and ends_with are computed, not assumed.      *)
(* Every Database / Databoard method is an operator from a world           *)
(* (databases, entry heap, outstanding guards, outstanding entry handles)  *)
(* to a result and the world after the call; the actions apply them.       *)
(***************************************************************************)
EXTENDS Integers, Sequences, FiniteSets, TLC

\* ------------------------------------------------------------------ bounds
\* width in bits of the sequence counter (usize in the source)
SeqWidth == 2
\* EntryData objects alive at the same time
MaxEntries == 1
\* entry guards outstanding at the same time
MaxGuards == 1
\* shared acquisitions of one entry lock
MaxReaders == 1
\* EntryPtr clones handed out by entry() and still held by callers
MaxHandles == 1
\* mutable accesses counted per write guard (the count saturates here)
MaxTaken == 2

usize_MAX == 2 ^ SeqWidth - 1

\* ------------------------------------------------------------------ strings
Str1(c) == <<c>>
K == <<"k">>
T == <<"t">>
Lit == <<"4", "2">>
Top(key) == <<"@">> \o key
Local(key) == <<"_">> \o key
Ptr(key) == <<"{">> \o key \o <<"}">>

\* Option<T>: None is <<>>, Some(x) is <<x>>
None == <<>>
Some(x) == <<x>>
IsSome(o) == o # <<>>

starts_with(s, p) == Len(s) >= Len(p) /\ SubSeq(s, 1, Len(p)) = p
ends_with(s, p) == Len(s) >= Len(p) /\ SubSeq(s, Len(s) - Len(p) + 1, Len(s)) = p
strip_prefix(s, p) == IF starts_with(s, p) THEN Some(SubSeq(s, Len(p) + 1, Len(s))) ELSE None
strip_suffix(s, p) == IF ends_with(s, p) THEN Some(SubSeq(s, 1, Len(s) - Len(p))) ELSE None

\* core::result::Result of the check_* helpers: Ok(stripped) or Err(original)
CkOk(v) == [ok |-> TRUE, v |-> v]
CkErr(v) == [ok |-> FALSE, v |-> v]

\* ------------------------------------------------------- remappings.rs helpers
is_const_assignment(key) == ~starts_with(key, <<"{">>) /\ ~ends_with(key, <<"}">>)

is_board_pointer(key) == starts_with(key, <<"{">>) /\ ends_with(key, <<"}">>)

\* a variant of strip_board_pointer that takes every target for a board
\* pointer; C5_LiteralTargetFails does not hold with it
strip_board_pointer_any(key) == Some(key)

strip_board_pointer(key) ==
    LET a == strip_prefix(key, <<"{">>)
    IN  IF a = None THEN None ELSE strip_suffix(a[1], <<"}">>)

check_board_pointer(key) ==
    LET a == strip_prefix(key, <<"{">>)
    IN  IF a = None THEN CkErr(key)
        ELSE LET v == strip_suffix(a[1], <<"}">>)
             IN  IF v = None THEN CkErr(key) ELSE CkOk(v[1])

\* a variant of check_local_key that never recognises the "_" prefix;
\* C4_LocalOnly does not hold with it
check_local_key_never(key) == CkErr(key)

check_local_key(key) ==
    LET v == strip_prefix(key, <<"_">>)
    IN  IF v = None THEN CkErr(key) ELSE CkOk(v[1])

\* a variant of check_top_level_key that never recognises the "@" prefix;
\* C22_ChildAndRootIndependent does not hold with it
check_top_level_key_never(key) == CkErr(key)

check_top_level_key(key) ==
    LET v == strip_prefix(key, <<"@">>)
    IN  IF v = None THEN CkErr(key) ELSE CkOk(v[1])

\* Remappings::find on a rule list (a sequence of <<source, target>>)
RECURSIVE find_from(_, _, _)
find_from(rules, i, key) ==
    IF i > Len(rules) THEN None
    ELSE IF rules[i][1] = key
         THEN IF rules[i][2] = <<"{", "=", "}">>
              THEN Some(<<"{">> \o key \o <<"}">>)
              ELSE Some(rules[i][2])
         ELSE find_from(rules, i + 1, key)

\* a variant of Remappings::find that returns the target as stored;
\* C27_SelfBinding does not hold with it
find_stored(rules, key) ==
    IF \E i \in 1..Len(rules) : rules[i][1] = key
    THEN Some(rules[CHOOSE i \in 1..Len(rules) :
                        rules[i][1] = key /\ \A j \in 1..(i - 1) : rules[j][1] # key][2])
    ELSE None

find(rules, key) == find_from(rules, 1, key)

\* ------------------------------------------------------------------ state
Boards == {"root", "L1", "L2"}
NoBoard == "None"
Types == {"i32", "String"}
Values == {[ty |-> "i32", v |-> 1], [ty |-> "i32", v |-> 2], [ty |-> "String", v |-> 1]}

VARIABLES
    parent,       \* DataboardInner.parent: board -> board or NoBoard
    remappings,   \* DataboardInner.remappings: board -> rule list
    autoremap,    \* DataboardInner.autoremap: board -> BOOLEAN
    db,           \* Database.storage of each board: key -> entry id
    ent,          \* the EntryData objects alive, with the state of their RwLock
    guards,       \* the EntryReadGuard / EntryWriteGuard objects alive
    handles,      \* EntryPtr clones held outside databases and live guards: id -> count
    last_drop,    \* history: what the most recent step did if it dropped a guard
    cap,          \* how many entries, guards, readers and handles the model keeps
    board_lock,   \* DataboardInner.database: the RwLock around each board's Database
    thr           \* the threads: where each is in its current call, what it holds

vars == <<parent, remappings, autoremap, db, ent, guards, handles, last_drop, cap, board_lock, thr>>

World == [db |-> db, ent |-> ent, guards |-> guards, handles |-> handles, cap |-> cap]

\* ------------------------------------------------------------------ results
Ok(x) == [tag |-> "Ok", val |-> <<x>>]
Err(kind, info) == [tag |-> kind, val |-> info]
\* the call spins on the entry lock and does not return
Blocked == [tag |-> "Blocked", val |-> <<>>]
\* the call would exceed a bound of the model; it is not taken
Full == [tag |-> "Full", val |-> <<>>]
Ret(res, w) == [res |-> res, w |-> w]

\* ------------------------------------------------------------------ entry.rs
\* a variant of EntryData::new that starts the counter at 0; C18_Standalone
\* does not hold with it
EntryData_new_zero(value) == [data |-> value, sequence_id |-> 0, readers |-> 0, writer |-> FALSE]

\* EntryData::new
EntryData_new(value) == [data |-> value, sequence_id |-> 1, readers |-> 0, writer |-> FALSE]

\* a variant of read that does not wait for a writer; C34_SelfDeadlock does
\* not hold with it
can_read_beside_writer(x) == TRUE

\* spin::RwLock: read() and try_read() succeed unless a writer holds the lock,
\* write() and try_write() succeed only on a free lock
can_read(x) == ~x.writer
\* a variant of try_write that succeeds beside readers;
\* C13_GuardsExclusive does not hold with it
can_write_beside_readers(x) == ~x.writer
can_write(x) == ~x.writer /\ x.readers = 0

\* Arc strong count of entry e: its database slot, the guards and the handles
strong_count(w, e) ==
    Cardinality({s \in UNION {{<<b, key>> : key \in DOMAIN w.db[b]} : b \in Boards} : w.db[s[1]][s[2]] = e})
    + Cardinality({g \in DOMAIN w.guards : w.guards[g].entry = e})
    + w.handles[e]

\* an EntryData is freed when its last Arc is dropped
release(w) == [w EXCEPT !.ent = [e \in {x \in DOMAIN w.ent : strong_count(w, x) > 0} |-> w.ent[e]]]

FreeIds(used, max) == {i \in 1..max : i \notin used}
FirstFree(used, max) == CHOOSE i \in FreeIds(used, max) : \A j \in FreeIds(used, max) : i <= j

\* the guard object built after a successful downcast
NewGuard(w, kind, e) ==
    IF FreeIds(DOMAIN w.guards, w.cap.guards) = {} THEN Ret(Full, w)
    ELSE LET g == FirstFree(DOMAIN w.guards, w.cap.guards)
         IN  Ret(Ok(g), [w EXCEPT !.guards = @ @@ (g :> [kind |-> kind, entry |-> e, modified |-> FALSE, taken |-> 0])])

\* EntryReadGuard::new: read() blocks on a writer; the lock guard is leaked
\* before the downcast, and a failed downcast returns without releasing it
EntryReadGuard_new(w, key, e, ty) ==
    IF ~can_read(w.ent[e]) THEN Ret(Blocked, w)
    ELSE IF w.ent[e].readers >= w.cap.readers THEN Ret(Full, w)
    ELSE LET w1 == [w EXCEPT !.ent[e].readers = @ + 1]
         IN  IF w.ent[e].data.ty = ty
             THEN LET r == NewGuard(w1, "read", e)
                  IN  IF r.res = Full THEN Ret(Full, w) ELSE r
             ELSE Ret(Err("WrongType", <<key>>), w1)

\* EntryReadGuard::try_new
EntryReadGuard_try_new(w, key, e, ty) ==
    IF ~can_read(w.ent[e]) THEN Ret(Err("IsLocked", <<key>>), w)
    ELSE IF w.ent[e].readers >= w.cap.readers THEN Ret(Full, w)
    ELSE LET w1 == [w EXCEPT !.ent[e].readers = @ + 1]
         IN  IF w.ent[e].data.ty = ty
             THEN LET r == NewGuard(w1, "read", e)
                  IN  IF r.res = Full THEN Ret(Full, w) ELSE r
             ELSE Ret(Err("WrongType", <<key>>), w1)

\* EntryWriteGuard::new
EntryWriteGuard_new(w, key, e, ty) ==
    IF ~can_write(w.ent[e]) THEN Ret(Blocked, w)
    ELSE LET w1 == [w EXCEPT !.ent[e].writer = TRUE]
         IN  IF w.ent[e].data.ty = ty
             THEN LET r == NewGuard(w1, "write", e)
                  IN  IF r.res = Full THEN Ret(Full, w) ELSE r
             ELSE Ret(Err("WrongType", <<key>>), w1)

\* EntryWriteGuard::try_new
EntryWriteGuard_try_new(w, key, e, ty) ==
    IF ~can_write(w.ent[e]) THEN Ret(Err("IsLocked", <<key>>), w)
    ELSE LET w1 == [w EXCEPT !.ent[e].writer = TRUE]
         IN  IF w.ent[e].data.ty = ty
             THEN LET r == NewGuard(w1, "write", e)
                  IN  IF r.res = Full THEN Ret(Full, w) ELSE r
             ELSE Ret(Err("WrongType", <<key>>), w1)

\* a variant of deref_mut that does not set modified; C17_AtomicChange does
\* not hold with it
EntryWriteGuard_deref_mut_unmarked(w, g) == w

\* DerefMut for EntryWriteGuard: sets modified and hands out &mut T
\* (taken is a history field: how often the accessor was taken)
EntryWriteGuard_deref_mut(w, g) ==
    [w EXCEPT !.guards[g].modified = TRUE,
              !.guards[g].taken = IF @ < MaxTaken THEN @ + 1 ELSE @]

\* an assignment through the &mut T of deref_mut
EntryWriteGuard_assign(w, g, value) ==
    LET w1 == EntryWriteGuard_deref_mut(w, g)
    IN  [w1 EXCEPT !.ent[w.guards[g].entry].data = value]

RemoveGuard(w, g) == [w EXCEPT !.guards = [x \in DOMAIN w.guards \ {g} |-> w.guards[x]]]

\* Drop for EntryReadGuard: force_read_decrement, then the Arc is dropped
EntryReadGuard_drop(w, g) ==
    LET e == w.guards[g].entry
    IN  release(RemoveGuard([w EXCEPT !.ent[e].readers = @ - 1], g))

\* Drop for EntryWriteGuard: `*ptr_seq_id += 1` when modified, then
\* force_write_unlock. The addition is a plain `+=` on usize: at usize::MAX it
\* panics when the build checks overflow (the unlock is then never reached)
\* and wraps to 0 when it does not.
EntryWriteGuard_drop(w, g, overflow_checks) ==
    LET e == w.guards[g].entry
        seq == w.ent[e].sequence_id
    IN  IF w.guards[g].modified
        THEN IF seq < usize_MAX
             THEN release(RemoveGuard([w EXCEPT !.ent[e].sequence_id = seq + 1, !.ent[e].writer = FALSE], g))
             ELSE IF overflow_checks
                  THEN release(RemoveGuard(w, g))
                  ELSE release(RemoveGuard([w EXCEPT !.ent[e].sequence_id = (seq + 1) % (2 ^ SeqWidth),
                                                     !.ent[e].writer = FALSE], g))
        ELSE release(RemoveGuard([w EXCEPT !.ent[e].writer = FALSE], g))

\* ------------------------------------------------------------------ database.rs
storage(w, b) == w.db[b]

\* a variant of Database::contains_key that finds no key;
\* C21_ContainsKeyRoutes does not hold with it
db_contains_key_never(w, b, key) == FALSE

\* Database::contains_key
db_contains_key(w, b, key) == key \in DOMAIN storage(w, b)

\* Database::contains
db_contains(w, b, key, ty) ==
    IF key \in DOMAIN storage(w, b)
    THEN LET e == storage(w, b)[key]
         IN  IF ~can_read(w.ent[e]) THEN Ret(Blocked, w)
             ELSE IF w.ent[e].data.ty # ty THEN Ret(Err("WrongType", <<key>>), w)
             ELSE Ret(Ok(TRUE), w)
    ELSE Ret(Ok(FALSE), w)

\* Database::create
db_create(w, b, key, value) ==
    IF key \in DOMAIN storage(w, b) THEN Ret(Err("AlreadyExists", <<key>>), w)
    ELSE IF FreeIds(DOMAIN w.ent, w.cap.entries) = {} THEN Ret(Full, w)
    ELSE LET e == FirstFree(DOMAIN w.ent, w.cap.entries)
         IN  Ret(Ok(<<>>), [w EXCEPT !.ent = @ @@ (e :> EntryData_new(value)),
                                     !.db[b] = @ @@ (key :> e)])

\* a variant of Database::delete that returns the value and keeps the key;
\* C20_DeletedEverywhere does not hold with it
db_delete_keeps_key(w, b, key, ty) ==
    IF key \notin DOMAIN w.db[b] THEN Ret(Err("NotFound", <<key>>), w)
    ELSE IF ~can_read(w.ent[w.db[b][key]]) THEN Ret(Blocked, w)
    ELSE IF w.ent[w.db[b][key]].data.ty # ty THEN Ret(Err("WrongType", <<key>>), w)
    ELSE Ret(Ok(w.ent[w.db[b][key]].data), w)

\* Database::delete: the type is checked under two read locks, the key is
\* removed, and the value is returned only if Arc::into_inner finds no other
\* owner of the entry
db_delete(w, b, key, ty) ==
    IF key \notin DOMAIN storage(w, b) THEN Ret(Err("NotFound", <<key>>), w)
    ELSE LET e == storage(w, b)[key]
         IN  IF ~can_read(w.ent[e]) THEN Ret(Blocked, w)
             ELSE IF w.ent[e].data.ty # ty THEN Ret(Err("WrongType", <<key>>), w)
             ELSE LET w1 == [w EXCEPT !.db[b] = [x \in DOMAIN storage(w, b) \ {key} |-> storage(w, b)[x]]]
                  IN  IF strong_count(w, e) = 1
                      THEN Ret(Ok(w.ent[e].data), release(w1))
                      ELSE Ret(Err("Unexpected", <<>>), release(w1))

\* Database::entry
db_entry(w, b, key) ==
    IF key \in DOMAIN storage(w, b)
    THEN LET e == storage(w, b)[key]
         IN  IF w.handles[e] >= w.cap.handles THEN Ret(Full, w)
             ELSE Ret(Ok(e), [w EXCEPT !.handles[e] = @ + 1])
    ELSE Ret(Err("NotFound", <<key>>), w)

\* Database::get_mut_ref
db_get_mut_ref(w, b, key, ty) ==
    IF key \in DOMAIN storage(w, b)
    THEN EntryWriteGuard_new(w, key, storage(w, b)[key], ty)
    ELSE Ret(Err("NotFound", <<key>>), w)

\* Database::get_ref
db_get_ref(w, b, key, ty) ==
    IF key \in DOMAIN storage(w, b)
    THEN EntryReadGuard_new(w, key, storage(w, b)[key], ty)
    ELSE Ret(Err("NotFound", <<key>>), w)

\* Database::read
db_read(w, b, key, ty) ==
    IF key \notin DOMAIN storage(w, b) THEN Ret(Err("NotFound", <<key>>), w)
    ELSE LET e == storage(w, b)[key]
         IN  IF ~can_read(w.ent[e]) THEN Ret(Blocked, w)
             ELSE IF w.ent[e].data.ty # ty THEN Ret(Err("WrongType", <<key>>), w)
             ELSE Ret(Ok(w.ent[e].data), w)

\* Database::sequence_id
db_sequence_id(w, b, key) ==
    IF key \notin DOMAIN storage(w, b) THEN Ret(Err("NotFound", <<key>>), w)
    ELSE LET e == storage(w, b)[key]
         IN  IF ~can_read(w.ent[e]) THEN Ret(Blocked, w)
             ELSE Ret(Ok(w.ent[e].sequence_id), w)

\* Database::try_get_mut_ref
db_try_get_mut_ref(w, b, key, ty) ==
    IF key \in DOMAIN storage(w, b)
    THEN EntryWriteGuard_try_new(w, key, storage(w, b)[key], ty)
    ELSE Ret(Err("NotFound", <<key>>), w)

\* Database::try_get_ref
db_try_get_ref(w, b, key, ty) ==
    IF key \in DOMAIN storage(w, b)
    THEN EntryReadGuard_try_new(w, key, storage(w, b)[key], ty)
    ELSE Ret(Err("NotFound", <<key>>), w)

\* a variant of Database::update that stores the value and leaves the counter;
\* C8_SequenceIdAccounting does not hold with it
db_update_keeps_counter(w, b, key, value) ==
    IF key \notin DOMAIN w.db[b] THEN Ret(Err("NotFound", <<key>>), w)
    ELSE LET e == w.db[b][key]
         IN  IF ~can_write(w.ent[e]) THEN Ret(Blocked, w)
             ELSE IF w.ent[e].data.ty = value.ty
             THEN Ret(Ok(w.ent[e].data), [w EXCEPT !.ent[e].data = value])
             ELSE Ret(Err("WrongType", <<key>>), w)

\* a variant of Database::update that stores a value of any type;
\* C23_TypeIsStable does not hold with it
db_update_any_type(w, b, key, value) ==
    IF key \notin DOMAIN w.db[b] THEN Ret(Err("NotFound", <<key>>), w)
    ELSE LET e == w.db[b][key]
         IN  IF ~can_write(w.ent[e]) THEN Ret(Blocked, w)
             ELSE Ret(Ok(w.ent[e].data),
                      [w EXCEPT !.ent[e].data = value,
                                !.ent[e].sequence_id = IF @ < usize_MAX THEN @ + 1 ELSE 0 + 1])

\* Database::update
db_update(w, b, key, value) ==
    IF key \notin DOMAIN storage(w, b) THEN Ret(Err("NotFound", <<key>>), w)
    ELSE LET e == storage(w, b)[key]
         IN  IF ~can_write(w.ent[e]) THEN Ret(Blocked, w)
             ELSE IF w.ent[e].data.ty = value.ty
             THEN Ret(Ok(w.ent[e].data),
                      [w EXCEPT !.ent[e].data = value,
                                !.ent[e].sequence_id = IF @ < usize_MAX THEN @ + 1 ELSE 0 + 1])
             ELSE Ret(Err("WrongType", <<key>>), w)

\* ------------------------------------------------------------------ databoard.rs
\* a variant of root that stops at the direct parent; C1_TopLevelRedirect
\* does not hold with it
root_one_hop(b) == IF parent[b] = NoBoard THEN b ELSE parent[b]

\* DataboardInner::root
RECURSIVE root(_)
root(b) == IF parent[b] = NoBoard THEN b ELSE root(parent[b])

\* a variant of remapping_info that lets autoremap hide the rules;
\* C3_RuleOnly does not hold with it
remapping_info_autoremap_first(b, key) ==
    IF autoremap[b] \/ find(remappings[b], key) = None
    THEN <<key, FALSE>>
    ELSE <<find(remappings[b], key)[1], TRUE>>

\* a variant of remapping_info that never finds a rule; C32_NoParent does
\* not hold with it
remapping_info_no_rules(b, key) == <<key, FALSE>>

\* DataboardInner::remapping_info
remapping_info(b, key) ==
    LET remapped == find(remappings[b], key)
    IN  IF remapped = None THEN <<key, FALSE>> ELSE <<remapped[1], TRUE>>

\* the position a method goes on from
Forward(b, key) == [done |-> FALSE, board |-> b, key |-> key]
\* the method ends here: at the local database or with an error
Ends == [done |-> TRUE]

\* a variant of the routing step that goes to the root with the key as it
\* is; C35_Terminates does not hold with it
route_step_unstripped(b, key) ==
    IF check_top_level_key(key).ok THEN Forward(root(b), key) ELSE Ends

\* one step of the match every method of DataboardInner starts with: the
\* method calls itself on the root or on the parent, or it ends
route_step(b, key) ==
    LET top == check_top_level_key(key)
    IN  IF top.ok THEN Forward(root(b), top.v)
        ELSE LET loc == check_local_key(top.v)
             IN  IF loc.ok THEN Ends
                 ELSE LET info == remapping_info(b, loc.v)
                          parent_key == info[1]
                          has_remapping == info[2]
                      IN  IF has_remapping
                          THEN LET board_pointer == strip_board_pointer(parent_key)
                               IN  IF board_pointer = None \/ parent[b] = NoBoard
                                   THEN Ends
                                   ELSE Forward(parent[b], board_pointer[1])
                          ELSE IF autoremap[b] /\ parent[b] # NoBoard
                               THEN Forward(parent[b], parent_key)
                               ELSE Ends

\* DataboardInner::contains_key
RECURSIVE contains_key(_, _, _)
contains_key(w, b, key) ==
    LET top == check_top_level_key(key)
    IN  IF top.ok THEN contains_key(w, root(b), top.v)
        ELSE LET loc == check_local_key(top.v)
             IN  IF loc.ok THEN db_contains_key(w, b, loc.v)
                 ELSE LET info == remapping_info(b, loc.v)
                          parent_key == info[1]
                          has_remapping == info[2]
                      IN  IF has_remapping
                          THEN LET board_pointer == strip_board_pointer(parent_key)
                               IN  IF board_pointer # None /\ parent[b] # NoBoard
                                   THEN contains_key(w, parent[b], board_pointer[1])
                                   ELSE FALSE
                          ELSE IF autoremap[b] /\ parent[b] # NoBoard
                               THEN contains_key(w, parent[b], parent_key)
                               ELSE db_contains_key(w, b, loc.v)

\* DataboardInner::contains
RECURSIVE contains(_, _, _, _)
contains(w, b, key, ty) ==
    LET top == check_top_level_key(key)
    IN  IF top.ok THEN contains(w, root(b), top.v, ty)
        ELSE LET loc == check_local_key(top.v)
             IN  IF loc.ok THEN db_contains(w, b, loc.v, ty)
                 ELSE LET info == remapping_info(b, loc.v)
                          parent_key == info[1]
                          has_remapping == info[2]
                      IN  IF has_remapping
                          THEN LET board_pointer == check_board_pointer(parent_key)
                               IN  IF ~board_pointer.ok
                                   THEN Ret(Ok(FALSE), w)
                                   ELSE IF parent[b] = NoBoard
                                        THEN Ret(Err("NoParent", <<key, board_pointer.v>>), w)
                                        ELSE contains(w, parent[b], board_pointer.v, ty)
                          ELSE IF autoremap[b] /\ parent[b] # NoBoard
                               THEN contains(w, parent[b], parent_key, ty)
                               ELSE db_contains(w, b, loc.v, ty)

\* DataboardInner::delete
RECURSIVE delete(_, _, _, _)
delete(w, b, key, ty) ==
    LET top == check_top_level_key(key)
    IN  IF top.ok THEN delete(w, root(b), top.v, ty)
        ELSE LET loc == check_local_key(top.v)
             IN  IF loc.ok THEN db_delete(w, b, loc.v, ty)
                 ELSE LET info == remapping_info(b, loc.v)
                          parent_key == info[1]
                          has_remapping == info[2]
                      IN  IF has_remapping
                          THEN LET board_pointer == strip_board_pointer(parent_key)
                               IN  IF board_pointer = None
                                   THEN Ret(Err("Assignment", <<loc.v, parent_key>>), w)
                                   ELSE IF parent[b] = NoBoard
                                        THEN Ret(Err("NoParent", <<key, board_pointer[1]>>), w)
                                        ELSE delete(w, parent[b], board_pointer[1], ty)
                          ELSE IF autoremap[b] /\ parent[b] # NoBoard
                               THEN delete(w, parent[b], parent_key, ty)
                               ELSE db_delete(w, b, loc.v, ty)

\* DataboardInner::entry
RECURSIVE entry(_, _, _)
entry(w, b, key) ==
    LET top == check_top_level_key(key)
    IN  IF top.ok THEN entry(w, root(b), top.v)
        ELSE LET loc == check_local_key(top.v)
             IN  IF loc.ok THEN db_entry(w, b, loc.v)
                 ELSE LET info == remapping_info(b, loc.v)
                          parent_key == info[1]
                          has_remapping == info[2]
                      IN  IF has_remapping
                          THEN LET board_pointer == strip_board_pointer(parent_key)
                               IN  IF board_pointer = None
                                   THEN Ret(Err("Assignment", <<loc.v, parent_key>>), w)
                                   ELSE IF parent[b] = NoBoard
                                        THEN Ret(Err("NoParent", <<key, board_pointer[1]>>), w)
                                        ELSE entry(w, parent[b], board_pointer[1])
                          ELSE IF autoremap[b] /\ parent[b] # NoBoard
                               THEN entry(w, parent[b], parent_key)
                               ELSE db_entry(w, b, loc.v)

\* DataboardInner::get
RECURSIVE get(_, _, _, _)
get(w, b, key, ty) ==
    LET top == check_top_level_key(key)
    IN  IF top.ok THEN get(w, root(b), top.v, ty)
        ELSE LET loc == check_local_key(top.v)
             IN  IF loc.ok THEN db_read(w, b, loc.v, ty)
                 ELSE LET info == remapping_info(b, loc.v)
                          parent_key == info[1]
                          has_remapping == info[2]
                      IN  IF has_remapping
                          THEN LET board_pointer == strip_board_pointer(parent_key)
                               IN  IF board_pointer = None
                                   THEN Ret(Err("Assignment", <<loc.v, parent_key>>), w)
                                   ELSE IF parent[b] = NoBoard
                                        THEN Ret(Err("NoParent", <<key, board_pointer[1]>>), w)
                                        ELSE get(w, parent[b], board_pointer[1], ty)
                          ELSE IF autoremap[b] /\ parent[b] # NoBoard
                               THEN get(w, parent[b], parent_key, ty)
                               ELSE db_read(w, b, loc.v, ty)

\* DataboardInner::get_mut_ref
RECURSIVE get_mut_ref(_, _, _, _)
get_mut_ref(w, b, key, ty) ==
    LET top == check_top_level_key(key)
    IN  IF top.ok THEN get_mut_ref(w, root(b), top.v, ty)
        ELSE LET loc == check_local_key(top.v)
             IN  IF loc.ok THEN db_get_mut_ref(w, b, loc.v, ty)
                 ELSE LET info == remapping_info(b, loc.v)
                          parent_key == info[1]
                          has_remapping == info[2]
                      IN  IF has_remapping
                          THEN LET board_pointer == strip_board_pointer(parent_key)
                               IN  IF board_pointer = None
                                   THEN Ret(Err("Assignment", <<loc.v, parent_key>>), w)
                                   ELSE IF parent[b] = NoBoard
                                        THEN Ret(Err("NoParent", <<key, board_pointer[1]>>), w)
                                        ELSE get_mut_ref(w, parent[b], board_pointer[1], ty)
                          ELSE IF autoremap[b] /\ parent[b] # NoBoard
                               THEN get_mut_ref(w, parent[b], parent_key, ty)
                               ELSE db_get_mut_ref(w, b, loc.v, ty)

\* DataboardInner::get_ref
RECURSIVE get_ref(_, _, _, _)
get_ref(w, b, key, ty) ==
    LET top == check_top_level_key(key)
    IN  IF top.ok THEN get_ref(w, root(b), top.v, ty)
        ELSE LET loc == check_local_key(top.v)
             IN  IF loc.ok THEN db_get_ref(w, b, loc.v, ty)
                 ELSE LET info == remapping_info(b, loc.v)
                          parent_key == info[1]
                          has_remapping == info[2]
                      IN  IF has_remapping
                          THEN LET board_pointer == strip_board_pointer(parent_key)
                               IN  IF board_pointer = None
                                   THEN Ret(Err("Assignment", <<loc.v, parent_key>>), w)
                                   ELSE IF parent[b] = NoBoard
                                        THEN Ret(Err("NoParent", <<key, board_pointer[1]>>), w)
                                        ELSE get_ref(w, parent[b], board_pointer[1], ty)
                          ELSE IF autoremap[b] /\ parent[b] # NoBoard
                               THEN get_ref(w, parent[b], parent_key, ty)
                               ELSE db_get_ref(w, b, loc.v, ty)

\* DataboardInner::sequence_id
RECURSIVE sequence_id(_, _, _)
sequence_id(w, b, key) ==
    LET top == check_top_level_key(key)
    IN  IF top.ok THEN sequence_id(w, root(b), top.v)
        ELSE LET loc == check_local_key(top.v)
             IN  IF loc.ok THEN db_sequence_id(w, b, loc.v)
                 ELSE LET info == remapping_info(b, loc.v)
                          parent_key == info[1]
                          has_remapping == info[2]
                      IN  IF has_remapping
                          THEN LET board_pointer == strip_board_pointer(parent_key)
                               IN  IF board_pointer = None
                                   THEN Ret(Err("Assignment", <<loc.v, parent_key>>), w)
                                   ELSE IF parent[b] = NoBoard
                                        THEN Ret(Err("NoParent", <<key, board_pointer[1]>>), w)
                                        ELSE sequence_id(w, parent[b], board_pointer[1])
                          ELSE IF autoremap[b] /\ parent[b] # NoBoard
                               THEN sequence_id(w, parent[b], parent_key)
                               ELSE db_sequence_id(w, b, loc.v)

\* `let old = ...update(key, value)?; Ok(Some(old))`
SomeOld(r) == IF r.res.tag = "Ok" THEN Ret(Ok(Some(r.res.val[1])), r.w) ELSE r
\* `...create(key, value)?; Ok(None)`
NoneOld(r) == IF r.res.tag = "Ok" THEN Ret(Ok(None), r.w) ELSE r

\* a variant of set that always uses the local database;
\* C37_AutoremapBoardsStayEmpty does not hold with it
set_always_local(w, b, key, value) ==
    IF db_contains_key(w, b, key)
    THEN SomeOld(db_update(w, b, key, value))
    ELSE NoneOld(db_create(w, b, key, value))

\* DataboardInner::set
RECURSIVE set(_, _, _, _)
set(w, b, key, value) ==
    LET top == check_top_level_key(key)
    IN  IF top.ok THEN set(w, root(b), top.v, value)
        ELSE LET loc == check_local_key(top.v)
             IN  IF loc.ok THEN SomeOld(db_update(w, b, loc.v, value))
                 ELSE LET info == remapping_info(b, loc.v)
                          parent_key == info[1]
                          has_remapping == info[2]
                      IN  IF has_remapping
                          THEN LET board_pointer == strip_board_pointer(parent_key)
                               IN  IF board_pointer = None
                                   THEN Ret(Err("Assignment", <<loc.v, parent_key>>), w)
                                   ELSE IF parent[b] = NoBoard
                                        THEN Ret(Err("NoParent", <<key, board_pointer[1]>>), w)
                                        ELSE set(w, parent[b], board_pointer[1], value)
                          ELSE IF autoremap[b] /\ parent[b] # NoBoard
                               THEN set(w, parent[b], parent_key, value)
                               ELSE IF contains_key(w, b, loc.v)
                                    THEN SomeOld(db_update(w, b, loc.v, value))
                                    ELSE NoneOld(db_create(w, b, loc.v, value))

\* DataboardInner::try_get_mut_ref
RECURSIVE try_get_mut_ref(_, _, _, _)
try_get_mut_ref(w, b, key, ty) ==
    LET top == check_top_level_key(key)
    IN  IF top.ok THEN try_get_mut_ref(w, root(b), top.v, ty)
        ELSE LET loc == check_local_key(top.v)
             IN  IF loc.ok THEN db_try_get_mut_ref(w, b, loc.v, ty)
                 ELSE LET info == remapping_info(b, loc.v)
                          parent_key == info[1]
                          has_remapping == info[2]
                      IN  IF has_remapping
                          THEN LET board_pointer == strip_board_pointer(parent_key)
                               IN  IF board_pointer = None
                                   THEN Ret(Err("Assignment", <<loc.v, parent_key>>), w)
                                   ELSE IF parent[b] = NoBoard
                                        THEN Ret(Err("NoParent", <<key, board_pointer[1]>>), w)
                                        ELSE try_get_mut_ref(w, parent[b], board_pointer[1], ty)
                          ELSE IF autoremap[b] /\ parent[b] # NoBoard
                               THEN try_get_mut_ref(w, parent[b], parent_key, ty)
                               ELSE db_try_get_mut_ref(w, b, loc.v, ty)

\* DataboardInner::try_get_ref: the autoremap branch calls the blocking get_ref
RECURSIVE try_get_ref(_, _, _, _)
try_get_ref(w, b, key, ty) ==
    LET top == check_top_level_key(key)
    IN  IF top.ok THEN try_get_ref(w, root(b), top.v, ty)
        ELSE LET loc == check_local_key(top.v)
             IN  IF loc.ok THEN db_try_get_ref(w, b, loc.v, ty)
                 ELSE LET info == remapping_info(b, loc.v)
                          parent_key == info[1]
                          has_remapping == info[2]
                      IN  IF has_remapping
                          THEN LET board_pointer == strip_board_pointer(parent_key)
                               IN  IF board_pointer = None
                                   THEN Ret(Err("Assignment", <<loc.v, parent_key>>), w)
                                   ELSE IF parent[b] = NoBoard
                                        THEN Ret(Err("NoParent", <<key, board_pointer[1]>>), w)
                                        ELSE try_get_ref(w, parent[b], board_pointer[1], ty)
                          ELSE IF autoremap[b] /\ parent[b] # NoBoard
                               THEN get_ref(w, parent[b], parent_key, ty)
                               ELSE db_try_get_ref(w, b, loc.v, ty)

\* ------------------------------------------------------------------ construction
Names == {K, T}

Threads == {"A", "B"}
\* a thread outside every call, holding nothing. pc: where the thread is;
\* call, at, phase: the call it is in, the board and key the call was routed
\* to, and the part of the method it is at; guard, gkey: the guard it holds
\* and the board and key it got it from; arc: the entry whose EntryPtr a guard
\* in drop still owns; waited, ret: history of the last call (whether it
\* waited for an entry held by a write guard, and its result if it did);
\* calls: how many calls the thread has made
IdleThread ==
    [pc |-> "idle", call |-> <<>>, at |-> <<>>, phase |-> "op", guard |-> 0, gkey |-> <<>>,
     arc |-> 0, ret |-> <<>>, waited |-> FALSE, calls |-> 0]
\* spin::RwLock of a board: free
FreeLock == [readers |-> 0, writer |-> FALSE]
\* the keys the callers use
OpKeys == {K, Top(K), Local(K), T}

\* the rule tables boards are built with: none, a board pointer, a constant
RuleTables == {<<>>, << <<K, Ptr(T)>> >>, << <<K, Lit>> >>}

\* Databoard::new, Databoard::with and Databoard::with_parent build the chain
\* root <- L1 <- L2; the root is built by new() or by with(None, rules, false)
Init ==
    /\ parent = [b \in Boards |-> CASE b = "root" -> NoBoard [] b = "L1" -> "root" [] OTHER -> "L1"]
    /\ remappings \in [Boards -> RuleTables]
    /\ autoremap \in [Boards -> BOOLEAN]
    /\ autoremap["root"] = FALSE
    /\ Cardinality({b \in Boards : remappings[b] # <<>>}) <= 1
    /\ remappings["root"] # <<>> => \A b \in Boards : ~autoremap[b]
    /\ db = [b \in Boards |-> <<>>]
    /\ ent = <<>>
    /\ guards = <<>>
    /\ handles = [e \in 1..MaxEntries |-> 0]
    /\ last_drop = None
    /\ cap = [entries |-> MaxEntries, guards |-> MaxGuards, readers |-> MaxReaders, handles |-> MaxHandles]
    /\ board_lock = [b \in Boards |-> FreeLock]
    /\ thr = [t \in Threads |-> IdleThread]

\* ------------------------------------------------------------------ actions
\* a call that returns: the world becomes the one the method leaves
Returns(r) ==
    /\ r.res.tag \notin {"Blocked", "Full"}
    /\ db' = r.w.db
    /\ ent' = r.w.ent
    /\ guards' = r.w.guards
    /\ handles' = r.w.handles
    /\ UNCHANGED <<parent, remappings, autoremap, cap, board_lock, thr>>

\* a method call that returns
Call(r) == Returns(r) /\ last_drop' = None

\* the record of a guard drop: the guard as it was, and the counter before and after
Dropped(g, w) ==
    Some([guard |-> guards[g],
          before |-> ent[guards[g].entry].sequence_id,
          after |-> IF guards[g].entry \in DOMAIN w.ent
                    THEN Some(w.ent[guards[g].entry].sequence_id) ELSE None,
          unlocked |-> IF guards[g].entry \in DOMAIN w.ent
                       THEN Some(can_write(w.ent[guards[g].entry])) ELSE None])

ContainsKey(b, key) ==
    /\ contains_key(World, b, key) \in BOOLEAN
    /\ UNCHANGED vars

Contains(b, key, ty) == Call(contains(World, b, key, ty))

Delete(b, key, ty) == Call(delete(World, b, key, ty))

Entry(b, key) == Call(entry(World, b, key))

Get(b, key, ty) == Call(get(World, b, key, ty))

GetMutRef(b, key, ty) == Call(get_mut_ref(World, b, key, ty))

GetRef(b, key, ty) == Call(get_ref(World, b, key, ty))

SequenceId(b, key) == Call(sequence_id(World, b, key))

Set(b, key, value) == Call(set(World, b, key, value))

TryGetMutRef(b, key, ty) == Call(try_get_mut_ref(World, b, key, ty))

TryGetRef(b, key, ty) == Call(try_get_ref(World, b, key, ty))

\* reading through a guard (Deref)
GuardDeref(g) ==
    /\ g \in DOMAIN guards
    /\ ent[guards[g].entry].data \in Values
    /\ UNCHANGED vars

\* `*guard = value`, or a deref_mut that leaves the value as it is
GuardDerefMut(g, value) ==
    /\ g \in DOMAIN guards
    /\ guards[g].kind = "write"
    /\ value.ty = ent[guards[g].entry].data.ty
    /\ Call(Ret(Ok(<<>>), EntryWriteGuard_assign(World, g, value)))

DropReadGuard(g) ==
    /\ g \in DOMAIN guards
    /\ guards[g].kind = "read"
    /\ Returns(Ret(Ok(<<>>), EntryReadGuard_drop(World, g)))
    /\ last_drop' = Dropped(g, EntryReadGuard_drop(World, g))

DropWriteGuard(g) ==
    /\ g \in DOMAIN guards
    /\ guards[g].kind = "write"
    /\ \/ /\ Returns(Ret(Ok(<<>>), EntryWriteGuard_drop(World, g, FALSE)))
          /\ last_drop' = Dropped(g, EntryWriteGuard_drop(World, g, FALSE))
       \/ /\ Returns(Ret(Ok(<<>>), EntryWriteGuard_drop(World, g, TRUE)))
          /\ last_drop' = Dropped(g, EntryWriteGuard_drop(World, g, TRUE))

\* a caller drops an EntryPtr it got from entry()
DropHandle(e) ==
    /\ handles[e] > 0
    /\ Call(Ret(Ok(<<>>), release([World EXCEPT !.handles[e] = @ - 1])))

Next ==
    \/ \E b \in Boards, key \in OpKeys : ContainsKey(b, key)
    \/ \E b \in Boards, key \in OpKeys, ty \in Types : Contains(b, key, ty)
    \/ \E b \in Boards, key \in OpKeys, ty \in Types : Delete(b, key, ty)
    \/ \E b \in Boards, key \in OpKeys : Entry(b, key)
    \/ \E b \in Boards, key \in OpKeys, ty \in Types : Get(b, key, ty)
    \/ \E b \in Boards, key \in OpKeys, ty \in Types : GetMutRef(b, key, ty)
    \/ \E b \in Boards, key \in OpKeys, ty \in Types : GetRef(b, key, ty)
    \/ \E b \in Boards, key \in OpKeys : SequenceId(b, key)
    \/ \E b \in Boards, key \in OpKeys, value \in Values : Set(b, key, value)
    \/ \E b \in Boards, key \in OpKeys, ty \in Types : TryGetMutRef(b, key, ty)
    \/ \E b \in Boards, key \in OpKeys, ty \in Types : TryGetRef(b, key, ty)
    \/ \E g \in 1..MaxGuards : GuardDeref(g)
    \/ \E g \in 1..MaxGuards, value \in Values : GuardDerefMut(g, value)
    \/ \E g \in 1..MaxGuards : DropReadGuard(g)
    \/ \E g \in 1..MaxGuards : DropWriteGuard(g)
    \/ \E e \in 1..MaxEntries : DropHandle(e)

Spec == Init /\ [][Next]_vars

\* ------------------------------------------------------------------ calls
\* every single-key operation with its type or value argument
TypedOps == {"contains", "delete", "get", "get_mut_ref", "get_ref", "try_get_mut_ref", "try_get_ref"}
UntypedOps == {"contains_key", "entry", "sequence_id"}
AnyValue == [ty |-> "i32", v |-> 1]
Calls ==
    {[op |-> o, ty |-> ty, value |-> AnyValue] : o \in TypedOps, ty \in Types}
    \cup {[op |-> "set", ty |-> v.ty, value |-> v] : v \in Values}
    \cup {[op |-> o, ty |-> "i32", value |-> AnyValue] : o \in UntypedOps}

\* the call c made on board b with key: its result and the world it leaves
Invoke(c, w, b, key) ==
    CASE c.op = "contains_key" -> Ret(Ok(contains_key(w, b, key)), w)
      [] c.op = "contains" -> contains(w, b, key, c.ty)
      [] c.op = "delete" -> delete(w, b, key, c.ty)
      [] c.op = "entry" -> entry(w, b, key)
      [] c.op = "get" -> get(w, b, key, c.ty)
      [] c.op = "get_mut_ref" -> get_mut_ref(w, b, key, c.ty)
      [] c.op = "get_ref" -> get_ref(w, b, key, c.ty)
      [] c.op = "sequence_id" -> sequence_id(w, b, key)
      [] c.op = "set" -> set(w, b, key, c.value)
      [] c.op = "try_get_mut_ref" -> try_get_mut_ref(w, b, key, c.ty)
      [] c.op = "try_get_ref" -> try_get_ref(w, b, key, c.ty)

IsErr(res) == res.tag \notin {"Ok", "Blocked", "Full"}

\* the boards reachable from the boards of S by following parent links
RECURSIVE Closure(_)
Closure(S) ==
    LET S2 == S \cup ({parent[x] : x \in S} \ {NoBoard})
    IN  IF S2 = S THEN S ELSE Closure(S2)

\* the farthest ancestor of b, or b itself when b has no parent
FarthestAncestor(b) == CHOOSE r \in Closure({b}) : parent[r] = NoBoard

\* ------------------------------------------------------------------ C1
\* C1: for every board b with root r, every key and every single-key
\* operation, the call on b with "@" + key returns the same result and leaves
\* the same world as the call on r with key, whatever the rules and autoremap
\* flags of b and of the boards between b and r.
C1_TopLevelRedirect ==
    \A b \in Boards, key \in OpKeys, c \in Calls :
        Invoke(c, World, b, Top(key)) = Invoke(c, World, FarthestAncestor(b), key)

\* a state in which a board with a rule for "k" reaches the root entry through
\* "@k" although its own "k" does not resolve
C1_Witness ==
    /\ remappings["L2"] # <<>>
    /\ K \in DOMAIN db["root"]
    /\ get(World, "L2", Top(K), "i32").res.tag = "Ok"
    /\ get(World, "L2", K, "i32").res.tag \notin {"Ok", "Blocked"}

\* ------------------------------------------------------------------ C2
\* every board but the root was built by with_parent, the root by new
WithParentChain ==
    /\ \A b \in Boards : remappings[b] = <<>>
    /\ \A b \in Boards \ {"root"} : autoremap[b]

\* C2: in a with_parent chain, set(k, v) on the leaf returns none and creates
\* the entry in the leaf's own database, no ancestor holding k afterwards, when
\* k is on no board; and when k is on the root the call returns the old value,
\* updates the root entry and creates nothing.
C2_LeafSetCreatesAtLeaf ==
    \A value \in Values :
        LET r == set(World, "L2", K, value)
        IN  (WithParentChain /\ r.res.tag = "Ok") =>
                /\ (\A b \in Boards : K \notin DOMAIN db[b]) =>
                       /\ r.res = Ok(None)
                       /\ K \in DOMAIN r.w.db["L2"]
                       /\ K \notin DOMAIN r.w.db["L1"]
                       /\ K \notin DOMAIN r.w.db["root"]
                /\ K \in DOMAIN db["root"] =>
                       /\ r.res = Ok(Some(ent[db["root"][K]].data))
                       /\ r.w.ent[db["root"][K]].data = value
                       /\ \A b \in Boards : DOMAIN r.w.db[b] = DOMAIN db[b]

\* ------------------------------------------------------------------ C3
\* the rule table of b, read without the resolver
HasRule(b, key) == \E i \in 1..Len(remappings[b]) : remappings[b][i][1] = key
RuleTarget(b, key) ==
    LET i == CHOOSE i \in 1..Len(remappings[b]) :
                 /\ remappings[b][i][1] = key
                 /\ \A j \in 1..(i - 1) : remappings[b][j][1] # key
    IN  remappings[b][i][2]
Braced(t) == Len(t) >= 2 /\ t[1] = "{" /\ t[Len(t)] = "}"
TargetName(b, key) ==
    LET t == RuleTarget(b, key)
    IN  IF t = <<"{", "=", "}">> THEN key ELSE SubSeq(t, 2, Len(t) - 1)

LocalOp(c, w, b, key) ==
    CASE c.op = "contains_key" -> Ret(Ok(db_contains_key(w, b, key)), w)
      [] c.op = "contains" -> db_contains(w, b, key, c.ty)
      [] c.op = "delete" -> db_delete(w, b, key, c.ty)
      [] c.op = "entry" -> db_entry(w, b, key)
      [] c.op = "get" -> db_read(w, b, key, c.ty)
      [] c.op = "get_mut_ref" -> db_get_mut_ref(w, b, key, c.ty)
      [] c.op = "get_ref" -> db_get_ref(w, b, key, c.ty)
      [] c.op = "sequence_id" -> db_sequence_id(w, b, key)
      [] c.op = "set" -> SomeOld(db_update(w, b, key, c.value))
      [] c.op = "try_get_mut_ref" -> db_try_get_mut_ref(w, b, key, c.ty)
      [] c.op = "try_get_ref" -> db_try_get_ref(w, b, key, c.ty)

\* the world with the databases of all boards but b emptied
Isolated(w, b) == [w EXCEPT !.db = [o \in Boards |-> IF o = b THEN w.db[b] ELSE <<>>]]

\* C4: for every board b, every name k and every operation, the call on b with
\* "_" + k gives the result of the Database method on b's own database under k
\* computed with all other boards emptied and without parent, rules or
\* autoremap; it leaves b's database as that method does, and it leaves the
\* key set and every entry of every other board unchanged.
C4_LocalOnly ==
    \A b \in Boards, n \in Names, c \in Calls :
        LET r == Invoke(c, World, b, Local(n))
            l == LocalOp(c, Isolated(World, b), b, n)
        IN  /\ r.res = l.res
            /\ r.w.db[b] = l.w.db[b]
            /\ \A key \in DOMAIN r.w.db[b] : r.w.ent[r.w.db[b][key]] = l.w.ent[r.w.db[b][key]]
            /\ \A o \in Boards \ {b} :
                   /\ r.w.db[o] = db[o]
                   /\ \A key \in DOMAIN db[o] : r.w.ent[db[o][key]] = ent[db[o][key]]

\* a board with autoremap on sees its parent's "k" through "k" and not through "_k"
C4_Witness ==
    \E b \in Boards \ {"root"} :
        /\ autoremap[b]
        /\ K \in DOMAIN db[parent[b]]
        /\ get(World, b, K, "i32").res.tag = "Ok"
        /\ get(World, b, Local(K), "i32").res.tag = "NotFound"
        /\ set(World, b, Local(K), [ty |-> "i32", v |-> 2]).res.tag = "NotFound"

\* ------------------------------------------------------------------ C5
AssignmentOps ==
    {"get", "set", "delete", "sequence_id", "entry", "get_ref", "get_mut_ref", "try_get_ref", "try_get_mut_ref"}

GuardOps == {"get_ref", "get_mut_ref", "try_get_ref", "try_get_mut_ref"}

\* C6: a get_ref, get_mut_ref, try_get_ref or try_get_mut_ref that fails with
\* WrongType leaves the lock of every entry as it was before the call: the
\* same number of shared acquisitions and no exclusive acquisition added.
C6_WrongTypeLeavesLock ==
    \A b \in Boards, key \in OpKeys, c \in Calls :
        c.op \in GuardOps =>
            LET r == Invoke(c, World, b, key)
            IN  r.res.tag = "WrongType" =>
                    \A e \in DOMAIN ent :
                        /\ r.w.ent[e].readers = ent[e].readers
                        /\ r.w.ent[e].writer = ent[e].writer

\* ------------------------------------------------------------------ C7
\* C7: the sequence_id of every entry lies in 1..usize::MAX in every reachable
\* state: it is 1 at creation and an increment at usize::MAX yields 1, in set
\* and update as well as in the drop of a modified write guard.
C7_SequenceIdRange ==
    \A e \in DOMAIN ent : ent[e].sequence_id \in 1..usize_MAX

\* ------------------------------------------------------------------ C8
\* the entries that a step from the current world to w keeps, and those of
\* them whose counter it changes
Common(w) == DOMAIN ent \cap DOMAIN w.ent
Raised(w) == {e \in Common(w) : w.ent[e].sequence_id # ent[e].sequence_id}
\* the counter of e is one higher in w, wrap-around aside
Up1(w, e) == ent[e].sequence_id < usize_MAX => w.ent[e].sequence_id = ent[e].sequence_id + 1

\* C8: from every reachable state, a set that updates raises the counter of
\* exactly one entry and by exactly 1, the drop of a modified write guard
\* raises the counter of its entry by exactly 1 (wrap-around aside in both),
\* and no other step changes the counter of any entry: no other call, failed
\* or not, no read-guard drop, no unmodified write-guard drop, no access
\* through a guard, no drop of an entry handle.
C8_SequenceIdAccounting ==
    /\ \A b \in Boards, key \in OpKeys, c \in Calls :
           LET r == Invoke(c, World, b, key)
           IN  IF c.op = "set" /\ r.res.tag = "Ok" /\ r.res.val[1] # None
               THEN \E e \in Common(r.w) : Raised(r.w) = {e} /\ Up1(r.w, e)
               ELSE Raised(r.w) = {}
    /\ \A g \in DOMAIN guards :
           LET e == guards[g].entry
           IN  IF guards[g].kind = "read"
               THEN Raised(EntryReadGuard_drop(World, g)) = {}
               ELSE /\ Raised(EntryWriteGuard_assign(World, g, ent[e].data)) = {}
                    /\ \A overflow_checks \in BOOLEAN :
                           LET w == EntryWriteGuard_drop(World, g, overflow_checks)
                           IN  IF ~guards[g].modified THEN Raised(w) = {}
                               ELSE IF ent[e].sequence_id = usize_MAX THEN Raised(w) \subseteq {e}
                               ELSE Raised(w) = {e} /\ Up1(w, e)
    /\ \A e \in DOMAIN ent :
           handles[e] > 0 => Raised(release([World EXCEPT !.handles[e] = @ - 1])) = {}

\* an entry updated once, on which a set with a value of another type fails
C8_Witness ==
    \E b \in Boards :
        /\ K \in DOMAIN db[b]
        /\ ent[db[b][K]].sequence_id = 2
        /\ ent[db[b][K]].data = [ty |-> "i32", v |-> 2]
        /\ set(World, b, Local(K), [ty |-> "String", v |-> 1]).res.tag = "WrongType"

\* ------------------------------------------------------------------ C9
\* the counter after one increment, with the wrap-around to 1
NextSequenceId(n) == IF n < usize_MAX THEN n + 1 ELSE 1

\* C9: after the drop of a write guard the counter of its entry is one
\* increment above its value before the drop when the guard's mutable accessor
\* was taken at least once, and equal to it when it was never taken.
C9_DropCountsOnce ==
    (last_drop # None /\ last_drop[1].guard.kind = "write" /\ last_drop[1].after # None) =>
        last_drop[1].after[1] = IF last_drop[1].guard.modified
                                THEN NextSequenceId(last_drop[1].before)
                                ELSE last_drop[1].before

\* ------------------------------------------------------------------ C10
\* C10: a call that returns an error leaves the key set of every board, the
\* value of every entry and the counter of every entry as they were; in
\* particular a delete that returns an error does not remove the entry.
C10_ErrorLeavesBoards ==
    \A b \in Boards, key \in OpKeys, c \in Calls :
        LET r == Invoke(c, World, b, key)
        IN  IsErr(r.res) =>
                /\ r.w.db = db
                /\ \A e \in DOMAIN ent :
                       /\ e \in DOMAIN r.w.ent
                       /\ r.w.ent[e].data = ent[e].data
                       /\ r.w.ent[e].sequence_id = ent[e].sequence_id

\* ------------------------------------------------------------------ C11
\* C11: try_get_ref and try_get_mut_ref never wait for an entry lock: on
\* every routing path and in every reachable state, also with the target
\* entry write-locked, the call returns (with IsLocked on contention).
C11_TryNeverWaits ==
    \A b \in Boards, key \in OpKeys, ty \in Types :
        /\ try_get_ref(World, b, key, ty).res # Blocked
        /\ try_get_mut_ref(World, b, key, ty).res # Blocked

\* ------------------------------------------------------------------ C18
\* C18: on a board without parent and rules that lacks the plain key k,
\* set(k, v) returns none, then get gives v and sequence_id 1; a second
\* set(k, v2) of the same type returns some(v), then get gives v2 and
\* sequence_id 2; delete then returns v2 and contains_key(k) is false.
C18_Standalone ==
    \A v \in Values, v2 \in Values :
        LET r1 == set(World, "root", K, v)
            r2 == set(r1.w, "root", K, v2)
            r3 == delete(r2.w, "root", K, v.ty)
        IN  (/\ remappings["root"] = <<>>
             /\ K \notin DOMAIN db["root"]
             /\ v2.ty = v.ty
             /\ r1.res # Full) =>
                /\ r1.res = Ok(None)
                /\ get(r1.w, "root", K, v.ty).res = Ok(v)
                /\ sequence_id(r1.w, "root", K).res = Ok(1)
                /\ r2.res = Ok(Some(v))
                /\ get(r2.w, "root", K, v.ty).res = Ok(v2)
                /\ sequence_id(r2.w, "root", K).res = Ok(2)
                /\ r3.res = Ok(v2)
                /\ ~contains_key(r3.w, "root", K)

\* the standalone root after set("k", 1) and set("k", 2), ready for the delete
C18_Witness ==
    /\ remappings["root"] = <<>>
    /\ sequence_id(World, "root", K).res = Ok(2)
    /\ get(World, "root", K, "i32").res = Ok([ty |-> "i32", v |-> 2])
    /\ delete(World, "root", K, "i32").res = Ok([ty |-> "i32", v |-> 2])
    /\ ~contains_key(delete(World, "root", K, "i32").w, "root", K)

\* ------------------------------------------------------------------ C20
\* C20: when delete on key at b returns a value, contains_key is false
\* afterwards for key at b and for every key of every board that resolved to
\* the deleted entry; and no call other than set, and no guard or handle
\* drop, adds a key to any board, so this stays so until a set creates the
\* entry again.
C20_DeletedEverywhere ==
    /\ \A b \in Boards, key \in OpKeys, ty \in Types :
           LET r == delete(World, b, key, ty)
           IN  r.res.tag = "Ok" =>
                   /\ ~contains_key(r.w, b, key)
                   /\ \A b2 \in Boards, key2 \in OpKeys :
                          entry(World, b2, key2).res = entry(World, b, key).res
                              => ~contains_key(r.w, b2, key2)
    /\ \A b \in Boards, key \in OpKeys, c \in Calls :
           c.op # "set" =>
               \A b2 \in Boards :
                   DOMAIN Invoke(c, World, b, key).w.db[b2] \subseteq DOMAIN db[b2]
    /\ \A g \in DOMAIN guards :
           IF guards[g].kind = "read"
           THEN EntryReadGuard_drop(World, g).db = db
           ELSE \A overflow_checks \in BOOLEAN :
                    EntryWriteGuard_drop(World, g, overflow_checks).db = db

\* the root holds "k", L1 and L2 see it through autoremap, and the delete
\* through L2 removes it for all three
C20_Witness ==
    LET r == delete(World, "L2", K, "i32")
    IN  /\ K \in DOMAIN db["root"]
        /\ contains_key(World, "L1", K)
        /\ contains_key(World, "L2", K)
        /\ r.res.tag = "Ok"
        /\ \A b \in Boards : ~contains_key(r.w, b, K)

\* ------------------------------------------------------------------ C19
\* the names of the test manual_remapping
test == <<"t", "e", "s", "t">>
test1 == test \o <<"1">>
test2 == test \o <<"2">>
testX == test \o <<"X">>
S4Keys == {test, test1, test2, testX}

\* the rule tables of manual_remapping: `remappings.add("test1", "test")`
\* stores the target as written, without braces
level1_remappings == << <<test, test>>, <<test1, test>> >>
level2_remappings == << <<test, test>>, <<test1, test1>>, <<test2, test>>, <<testX, test1>> >>
\* the same tables with every target written as a board pointer
WithPointers(rules) == [i \in 1..Len(rules) |-> <<rules[i][1], Ptr(rules[i][2])>>]

\* manual_remapping builds root, level1 and level2 with these tables and
\* autoremap off; the second configuration writes the targets as pointers
InitS4 ==
    /\ parent = [b \in Boards |-> CASE b = "root" -> NoBoard [] b = "L1" -> "root" [] OTHER -> "L1"]
    /\ \/ remappings = [b \in Boards |-> CASE b = "root" -> <<>>
                                           [] b = "L1" -> level1_remappings
                                           [] OTHER -> level2_remappings]
       \/ remappings = [b \in Boards |-> CASE b = "root" -> <<>>
                                           [] b = "L1" -> WithPointers(level1_remappings)
                                           [] OTHER -> WithPointers(level2_remappings)]
    /\ autoremap = [b \in Boards |-> FALSE]
    /\ db = [b \in Boards |-> <<>>]
    /\ ent = <<>>
    /\ guards = <<>>
    /\ handles = [e \in 1..MaxEntries |-> 0]
    /\ last_drop = None
    /\ cap = [entries |-> MaxEntries, guards |-> MaxGuards, readers |-> MaxReaders, handles |-> MaxHandles]
    /\ board_lock = [b \in Boards |-> FreeLock]
    /\ thr = [t \in Threads |-> IdleThread]

\* the steps of the test: set, get, sequence_id, contains_key and delete
NextS4 ==
    \/ \E b \in Boards, key \in S4Keys : ContainsKey(b, key)
    \/ \E b \in Boards, key \in S4Keys, ty \in Types : Delete(b, key, ty)
    \/ \E b \in Boards, key \in S4Keys, ty \in Types : Get(b, key, ty)
    \/ \E b \in Boards, key \in S4Keys : SequenceId(b, key)
    \/ \E b \in Boards, key \in S4Keys, value \in Values : Set(b, key, value)
    \/ \E b \in Boards, key \in S4Keys, ty \in Types : GetMutRef(b, key, ty)
    \/ \E g \in 1..MaxGuards, value \in Values : GuardDerefMut(g, value)
    \/ \E g \in 1..MaxGuards : DropWriteGuard(g)

SpecS4 == InitS4 /\ [][NextS4]_vars

\* the counter after n changes, the first being the creation
RECURSIVE Counter(_)
Counter(n) == IF n = 1 THEN 1 ELSE NextSequenceId(Counter(n - 1))

\* the names each board routes in the scenario
S4Aliases == [b \in Boards |-> CASE b = "root" -> {test}
                                 [] b = "L1" -> {test, test1}
                                 [] OTHER -> S4Keys]

\* the scenario from a state without entries: the four sets at level2 and
\* what the boards show after each
S4Scenario(v1, v2, v3, v4) ==
    LET r1 == set(World, "L2", test, v1)
        r2 == set(r1.w, "L2", test1, v2)
        r3 == set(r2.w, "L2", test2, v3)
        r4 == set(r3.w, "L2", testX, v4)
    IN  /\ r1.res = Ok(None)
        /\ DOMAIN r1.w.db["root"] = {test}
        /\ DOMAIN r1.w.db["L1"] = {} /\ DOMAIN r1.w.db["L2"] = {}
        /\ \A b \in Boards : \A key \in S4Aliases[b] : contains_key(r1.w, b, key)
        /\ r2.res = Ok(Some(v1))
        /\ r3.res = Ok(Some(v2))
        /\ r4.res = Ok(Some(v3))
        /\ \A b \in Boards : \A key \in S4Aliases[b] : get(r4.w, b, key, "i32").res = Ok(v4)
        /\ \A b \in Boards : sequence_id(r4.w, b, test).res = Ok(Counter(4))
        /\ Cardinality(DOMAIN r4.w.ent) = 1

S4Ints == {v \in Values : v.ty = "i32"}

\* C19: with the rule tables of the test manual_remapping (level1: test ->
\* test, test1 -> test; level2: test -> test, test1 -> test1, test2 -> test,
\* testX -> test1; autoremap off) all names alias one entry of the root:
\* set("test") at level2 creates the entry on the root and returns none, the
\* sets through test1, test2 and testX return the previous value, every
\* alias reads the last value, and sequence_id("test") is the counter after
\* four changes on all three boards.
C19_ManualRemapping ==
    (/\ remappings["L1"] = level1_remappings
     /\ remappings["L2"] = level2_remappings
     /\ ent = <<>>)
        => \A v1, v2, v3, v4 \in S4Ints : S4Scenario(v1, v2, v3, v4)

\* the same scenario when every target is written as a board pointer
S4WithPointers ==
    (/\ remappings["L1"] = WithPointers(level1_remappings)
     /\ remappings["L2"] = WithPointers(level2_remappings)
     /\ ent = <<>>)
        => \A v1, v2, v3, v4 \in S4Ints : S4Scenario(v1, v2, v3, v4)

\* ------------------------------------------------------------------ threads
\* The methods of DataboardInner with their locks. Every method finds the
\* board the key is routed to without taking a lock (parent, remappings and
\* autoremap never change), then runs one Database method inside
\* `self.database.read()` or `self.database.write()`: the lock of the board is
\* held until the Database method returns, also while that method spins on the
\* lock of the entry.
MaxEntriesConc == 4
MaxGuardsConc == 2
MaxReadersConc == 2
MaxHandlesConc == 1
\* the calls each thread makes
MaxCalls == 3

ConcBoards == {"root", "L1"}
ConcKeys == {K, T}
ConcValues == {v \in Values : v.ty = "i32"}
ConcOps == {"contains_key", "delete", "get", "get_mut_ref", "get_ref", "sequence_id",
            "try_get_mut_ref", "try_get_ref"}
ConcGuardOps == {"get_mut_ref", "get_ref", "try_get_mut_ref", "try_get_ref"}
ConcCalls ==
    {[op |-> o, ty |-> "i32", value |-> AnyValue] : o \in ConcOps}
    \cup {[op |-> "set", ty |-> v.ty, value |-> v] : v \in ConcValues}

\* the calls made with each key: everything with K; T is the other key of the
\* board, created, read and deleted
OtherKeyOps == {"set", "get", "delete", "contains_key"}
ConcCallsOn(key) ==
    IF key = K THEN ConcCalls ELSE {c \in ConcCalls : c.op \in OtherKeyOps /\ c.value = AnyValue}

\* the routing every method of DataboardInner starts with: the call ends
\* without touching a database (done), or lands on a board with a key and
\* the Database method to run; direct: the key came with the "_" prefix.
\* try_get_ref goes on as get_ref when autoremap forwards it.
Refused(res) == [done |-> TRUE, res |-> res]
Landed(op, b, key, direct) == [done |-> FALSE, board |-> b, key |-> key, op |-> op, direct |-> direct]
RECURSIVE route(_, _, _)
route(op, b, key) ==
    LET top == check_top_level_key(key)
    IN  IF top.ok THEN route(op, root(b), top.v)
        ELSE LET loc == check_local_key(top.v)
             IN  IF loc.ok THEN Landed(op, b, loc.v, TRUE)
                 ELSE LET info == remapping_info(b, loc.v)
                          parent_key == info[1]
                          has_remapping == info[2]
                      IN  IF has_remapping
                          THEN LET board_pointer == strip_board_pointer(parent_key)
                               IN  IF board_pointer = None
                                   THEN IF op \in {"contains_key", "contains"}
                                        THEN Refused(Ok(FALSE))
                                        ELSE Refused(Err("Assignment", <<loc.v, parent_key>>))
                                   ELSE IF parent[b] = NoBoard
                                        THEN IF op = "contains_key"
                                             THEN Refused(Ok(FALSE))
                                             ELSE Refused(Err("NoParent", <<key, board_pointer[1]>>))
                                        ELSE route(op, parent[b], board_pointer[1])
                          ELSE IF autoremap[b] /\ parent[b] # NoBoard
                               THEN route(IF op = "try_get_ref" THEN "get_ref" ELSE op, parent[b], parent_key)
                               ELSE Landed(op, b, loc.v, FALSE)

\* spin::RwLock of a board: read() spins while a writer holds it, write()
\* spins until nobody holds it
BoardFree(lock, mode) ==
    IF mode = "write" THEN ~lock.writer /\ lock.readers = 0 ELSE ~lock.writer
Acquire(lock, mode) ==
    IF mode = "write" THEN [lock EXCEPT !.writer = TRUE] ELSE [lock EXCEPT !.readers = @ + 1]
Release(lock, mode) ==
    IF mode = "write" THEN [lock EXCEPT !.writer = FALSE] ELSE [lock EXCEPT !.readers = @ - 1]

\* the lock a thread takes on the board it landed on: write() for delete and
\* for create, read() for everything else
Mode(th) ==
    IF th.phase = "create" \/ (th.phase = "op" /\ th.at[1].op = "delete") THEN "write" ELSE "read"

\* what the thread runs inside the lock of the board. set on a plain key is
\* `if self.contains_key(k) { database.read().update } else { database.write().create }`:
\* three lock sections, "check", then "update" or "create"
LocalStep(th, w) ==
    LET at == th.at[1]
        c == th.call[1]
    IN  CASE th.phase = "check" -> Ret(Ok(db_contains_key(w, at.board, at.key)), w)
          [] th.phase = "update" -> SomeOld(db_update(w, at.board, at.key, c.value))
          [] th.phase = "create" -> NoneOld(db_create(w, at.board, at.key, c.value))
          [] OTHER -> LocalOp([c EXCEPT !.op = at.op], w, at.board, at.key)

\* the thread when its lock section has returned r
After(th, r) ==
    IF th.phase = "check"
    THEN [th EXCEPT !.pc = "wait_board", !.phase = IF r.res = Ok(TRUE) THEN "update" ELSE "create"]
    ELSE LET done == IF th.waited THEN [th EXCEPT !.pc = "idle", !.ret = Some(r.res)]
                     ELSE [th EXCEPT !.pc = "idle", !.call = None, !.at = None, !.phase = "op"]
         IN  IF th.at[1].op \in ConcGuardOps /\ r.res.tag = "Ok"
             THEN [done EXCEPT !.guard = r.res.val[1], !.gkey = <<th.at[1].board, th.at[1].key>>]
             ELSE done

\* whether the entry the thread is about to wait for is held by a write guard
HeldByWriteGuard(th) ==
    /\ th.at[1].key \in DOMAIN db[th.at[1].board]
    /\ \E g \in DOMAIN guards : /\ guards[g].kind = "write"
                                /\ guards[g].entry = db[th.at[1].board][th.at[1].key]

\* one step of thread t, being th, at its lock section: with the lock of the
\* board in hand it runs the section to its end, or it starts to spin on the
\* lock of the entry and keeps the lock of the board
Step(t, th) ==
    LET bd == th.at[1].board
        r == LocalStep(th, World)
        holds == th.pc = "wait_entry"
    IN  /\ holds \/ BoardFree(board_lock[bd], Mode(th))
        /\ r.res # Full
        /\ IF r.res = Blocked
           THEN /\ ~holds
                /\ board_lock' = [board_lock EXCEPT ![bd] = Acquire(@, Mode(th))]
                /\ thr' = [thr EXCEPT ![t] = [th EXCEPT !.pc = "wait_entry",
                                                       !.waited = @ \/ HeldByWriteGuard(th)]]
                /\ UNCHANGED <<db, ent, guards, handles>>
           ELSE /\ db' = r.w.db
                /\ ent' = r.w.ent
                /\ guards' = r.w.guards
                /\ handles' = r.w.handles
                /\ board_lock' = IF holds THEN [board_lock EXCEPT ![bd] = Release(@, Mode(th))]
                                 ELSE board_lock
                /\ thr' = [thr EXCEPT ![t] = After(th, r)]
        /\ UNCHANGED <<parent, remappings, autoremap, last_drop, cap>>

\* thread t calls c on board b with key. A caller does not call an operation
\* on a key it holds a guard for, and asks for a guard only when it holds none.
Start(t, c, b, key) ==
    LET rt == route(c.op, b, key)
        th == [thr[t] EXCEPT !.pc = "wait_board", !.call = Some([c EXCEPT !.op = rt.op]), !.at = Some(rt),
                             !.phase = IF c.op = "set" /\ ~rt.direct THEN "check" ELSE "op",
                             !.ret = None, !.waited = FALSE, !.calls = @ + 1]
    IN  /\ thr[t].pc = "idle"
        /\ thr[t].calls < MaxCalls
        /\ c \in ConcCallsOn(key)
        /\ c.op \in ConcGuardOps => thr[t].guard = 0
        /\ IF rt.done
           THEN /\ thr' = [thr EXCEPT ![t] = [@ EXCEPT !.call = None, !.at = None, !.phase = "op",
                                                       !.ret = None, !.waited = FALSE, !.calls = @ + 1]]
                /\ UNCHANGED <<parent, remappings, autoremap, db, ent, guards, handles, last_drop, cap, board_lock>>
           ELSE /\ thr[t].gkey # <<rt.board, rt.key>>
                /\ IF BoardFree(board_lock[rt.board], Mode(th))
                   THEN Step(t, th)
                   ELSE /\ thr' = [thr EXCEPT ![t] = th]
                        /\ UNCHANGED <<parent, remappings, autoremap, db, ent, guards, handles, last_drop, cap, board_lock>>

\* the thread gets the lock of the board it was spinning on
Enter(t) == thr[t].pc = "wait_board" /\ Step(t, thr[t])

\* the thread gets the lock of the entry it was spinning on, finishes the
\* Database method and releases the lock of the board
Finish(t) == thr[t].pc = "wait_entry" /\ Step(t, thr[t])

\* `*guard = value` by the thread that holds the write guard
GuardWrite(t, value) ==
    /\ thr[t].pc = "idle"
    /\ thr[t].guard \in DOMAIN guards
    /\ guards[thr[t].guard].kind = "write"
    /\ value # ent[guards[thr[t].guard].entry].data
    /\ LET w == EntryWriteGuard_assign(World, thr[t].guard, value)
       IN  /\ ent' = w.ent
           /\ guards' = w.guards
    /\ UNCHANGED <<parent, remappings, autoremap, db, handles, last_drop, cap, board_lock, thr>>

\* the thread drops its guard: Drop::drop runs first (the counter, then
\* force_write_unlock or force_read_decrement); the field `entry: EntryPtr`
\* of the guard is dropped after it, in DropEnd. Between the two the lock is
\* free and the Arc still counts: it is kept in handles. A write guard whose
\* `+= 1` overflows panics in a build that checks overflow and never unlocks.
DropStart(t, overflow_checks) ==
    /\ thr[t].pc = "idle"
    /\ thr[t].guard \in DOMAIN guards
    /\ LET g == thr[t].guard
           e == guards[g].entry
           kept == [World EXCEPT !.handles[e] = @ + 1]
           w == IF guards[g].kind = "read" THEN EntryReadGuard_drop(kept, g)
                ELSE EntryWriteGuard_drop(kept, g, overflow_checks)
           panics == /\ guards[g].kind = "write" /\ guards[g].modified
                     /\ ent[e].sequence_id = usize_MAX /\ overflow_checks
       IN  /\ ent' = w.ent
           /\ guards' = w.guards
           /\ handles' = w.handles
           /\ thr' = [thr EXCEPT ![t] = [@ EXCEPT !.pc = IF panics THEN "panicked" ELSE "dropping",
                                                  !.guard = 0, !.gkey = <<>>, !.arc = e]]
    /\ UNCHANGED <<parent, remappings, autoremap, db, last_drop, cap, board_lock>>

\* the EntryPtr of the dropped guard is released
DropEnd(t) ==
    /\ thr[t].pc \in {"dropping", "panicked"}
    /\ thr[t].arc # 0
    /\ LET w == release([World EXCEPT !.handles[thr[t].arc] = @ - 1])
       IN  /\ ent' = w.ent
           /\ handles' = w.handles
    /\ thr' = [thr EXCEPT ![t] = [@ EXCEPT !.pc = IF @ = "dropping" THEN "idle" ELSE @, !.arc = 0]]
    /\ UNCHANGED <<parent, remappings, autoremap, db, guards, last_drop, cap, board_lock>>

\* root = Databoard::new(); L1 = Databoard::with_parent(root); the clones
\* are shared between the threads
InitConc ==
    /\ parent = [b \in Boards |-> CASE b = "root" -> NoBoard [] b = "L1" -> "root" [] OTHER -> "L1"]
    /\ remappings = [b \in Boards |-> <<>>]
    /\ autoremap = [b \in Boards |-> b = "L1"]
    /\ db = [b \in Boards |-> <<>>]
    /\ ent = <<>>
    /\ guards = <<>>
    /\ handles = [e \in 1..MaxEntriesConc |-> 0]
    /\ last_drop = None
    /\ cap = [entries |-> MaxEntriesConc, guards |-> MaxGuardsConc, readers |-> MaxReadersConc,
              handles |-> MaxHandlesConc]
    /\ board_lock = [b \in Boards |-> FreeLock]
    /\ thr = [t \in Threads |-> IdleThread]

NextConc ==
    \/ \E t \in Threads, c \in ConcCalls, b \in ConcBoards, key \in ConcKeys : Start(t, c, b, key)
    \/ \E t \in Threads : Enter(t)
    \/ \E t \in Threads : Finish(t)
    \/ \E t \in Threads, value \in ConcValues : GuardWrite(t, value)
    \/ \E t \in Threads, overflow_checks \in BOOLEAN : DropStart(t, overflow_checks)
    \/ \E t \in Threads : DropEnd(t)

SpecConc == InitConc /\ [][NextConc]_vars

\* ------------------------------------------------------------------ routing and methods
\* route and the methods of DataboardInner agree: a call gives what the
\* Database method gives on the board and with the key route lands on
RouteAgrees ==
    \A c \in Calls, b \in Boards, key \in OpKeys :
        LET rt == route(c.op, b, key)
            r == Invoke(c, World, b, key)
        IN  IF rt.done THEN r = Ret(rt.res, World)
            ELSE IF c.op = "set" /\ ~rt.direct
                 THEN r = IF db_contains_key(World, rt.board, rt.key)
                          THEN SomeOld(db_update(World, rt.board, rt.key, c.value))
                          ELSE NoneOld(db_create(World, rt.board, rt.key, c.value))
                 ELSE r = LocalOp([c EXCEPT !.op = rt.op], World, rt.board, rt.key)

\* no call of the threads runs into a bound of the model
NeverFull ==
    \A t \in Threads : thr[t].pc \in {"wait_board", "wait_entry"} => LocalStep(thr[t], World).res # Full

\* ------------------------------------------------------------------ C12
\* key at board b is routed to entry e
ResolvesTo(w, b, key, e) ==
    LET rt == route("get", b, key)
    IN  /\ ~rt.done
        /\ rt.key \in DOMAIN w.db[rt.board]
        /\ w.db[rt.board][rt.key] = e

\* C12: while a write guard on the entry of key k is held, try_get_ref and
\* try_get_mut_ref for k fail with IsLocked; when the guard has been dropped,
\* both succeed for the stored type.
C12_TryWhileWriteGuard ==
    \A g \in DOMAIN guards : guards[g].kind = "write" =>
        \A b \in Boards, key \in OpKeys : ResolvesTo(World, b, key, guards[g].entry) =>
            LET ty == ent[guards[g].entry].data.ty
            IN  /\ try_get_ref(World, b, key, ty).res.tag = "IsLocked"
                /\ try_get_mut_ref(World, b, key, ty).res.tag = "IsLocked"
                /\ \A overflow_checks \in BOOLEAN :
                       LET w == EntryWriteGuard_drop(World, g, overflow_checks)
                       IN  /\ try_get_ref(w, b, key, ty).res.tag = "Ok"
                           /\ try_get_mut_ref(w, b, key, ty).res.tag = "Ok"

\* the same where autoremap forwards no try_get_ref and the counter is below
\* its maximum
TryWhileWriteGuardElsewhere ==
    \A g \in DOMAIN guards : guards[g].kind = "write" =>
        \A b \in Boards, key \in OpKeys : ResolvesTo(World, b, key, guards[g].entry) =>
            LET ty == ent[guards[g].entry].data.ty
            IN  /\ route("try_get_ref", b, key).op = "try_get_ref"
                    => try_get_ref(World, b, key, ty).res.tag = "IsLocked"
                /\ try_get_mut_ref(World, b, key, ty).res.tag = "IsLocked"
                /\ ent[guards[g].entry].sequence_id < usize_MAX =>
                    \A overflow_checks \in BOOLEAN :
                       LET w == EntryWriteGuard_drop(World, g, overflow_checks)
                       IN  /\ try_get_ref(w, b, key, ty).res.tag = "Ok"
                           /\ try_get_mut_ref(w, b, key, ty).res.tag = "Ok"

\* ------------------------------------------------------------------ C13
WriteGuardsOn(e) == {g \in DOMAIN guards : guards[g].entry = e /\ guards[g].kind = "write"}
ReadGuardsOn(e) == {g \in DOMAIN guards : guards[g].entry = e /\ guards[g].kind = "read"}
Pending(t) == thr[t].pc \in {"wait_board", "wait_entry"}

\* C13: for every entry the guards alive are none, or one write guard and no
\* read guard, or read guards only; every guard is on a live entry, a write
\* guard has the lock of its entry as the writer and each read guard is
\* counted in its readers.
C13_GuardsExclusive ==
    /\ \A g \in DOMAIN guards : guards[g].entry \in DOMAIN ent
    /\ \A e \in DOMAIN ent :
           /\ Cardinality(WriteGuardsOn(e)) <= 1
           /\ WriteGuardsOn(e) # {} => ReadGuardsOn(e) = {} /\ ent[e].writer /\ ent[e].readers = 0
           /\ ReadGuardsOn(e) # {} => ~ent[e].writer /\ ent[e].readers >= Cardinality(ReadGuardsOn(e))

\* thread A holds a read guard on an entry, thread B has asked for a write
\* guard on it with get_mut_ref and spins
C13_Witness ==
    /\ thr["A"].guard \in DOMAIN guards
    /\ guards[thr["A"].guard].kind = "read"
    /\ thr["B"].pc = "wait_entry"
    /\ thr["B"].at[1].op = "get_mut_ref"
    /\ <<thr["B"].at[1].board, thr["B"].at[1].key>> = thr["A"].gkey

\* both threads hold a read guard on one entry
TwoReadGuards ==
    /\ thr["A"].guard \in DOMAIN guards
    /\ thr["B"].guard \in DOMAIN guards
    /\ thr["A"].guard # thr["B"].guard
    /\ guards[thr["A"].guard].entry = guards[thr["B"].guard].entry
    /\ guards[thr["A"].guard].kind = "read"

\* ------------------------------------------------------------------ C14
\* C14: a call on key k made while another thread holds a write guard on k
\* does not complete while the guard is held, and when the guard has been
\* dropped it completes successfully however the release of the guard and the
\* call interleave: get, set and sequence_id return Ok, and delete returns the
\* value and never an error.
C14_BlockedUntilDropThenOk ==
    \A t \in Threads :
        /\ (thr[t].pc = "wait_entry" /\ HeldByWriteGuard(thr[t]))
               => LocalStep(thr[t], World).res = Blocked
        /\ (thr[t].pc = "idle" /\ thr[t].waited /\ thr[t].ret # None
              /\ thr[t].at[1].op \in {"delete", "get", "set", "sequence_id"})
               => thr[t].ret[1].tag = "Ok"

\* the same for the calls other than delete
BlockedUntilDropThenOkButDelete ==
    \A t \in Threads :
        /\ (thr[t].pc = "wait_entry" /\ HeldByWriteGuard(thr[t]))
               => LocalStep(thr[t], World).res = Blocked
        /\ (thr[t].pc = "idle" /\ thr[t].waited /\ thr[t].ret # None
              /\ thr[t].at[1].op \in {"get", "set", "sequence_id"})
               => thr[t].ret[1].tag = "Ok"

\* ------------------------------------------------------------------ C15
\* C15: while a write guard on key k of a board is held and a call on k waits
\* for it, a call on another key j of the same board does not wait: it gets
\* the lock of the board.
C15_OtherKeysProceed ==
    \A t, u \in Threads :
        (/\ thr[u].pc = "wait_entry"
         /\ HeldByWriteGuard(thr[u])
         /\ thr[t].pc = "wait_board"
         /\ thr[t].at[1].board = thr[u].at[1].board
         /\ thr[t].at[1].key # thr[u].at[1].key)
            => BoardFree(board_lock[thr[t].at[1].board], Mode(thr[t]))

\* ------------------------------------------------------------------ C16
\* thread t can take a step: it gets the lock it spins on, or it is outside
\* every call and drops its guard, or it finishes the drop of a guard
CanMove(t) ==
    \/ thr[t].pc = "wait_board" /\ BoardFree(board_lock[thr[t].at[1].board], Mode(thr[t]))
    \/ thr[t].pc = "wait_entry" /\ LocalStep(thr[t], World).res # Blocked
    \/ thr[t].pc = "idle" /\ thr[t].guard # 0
    \/ thr[t].pc \in {"dropping", "panicked"} /\ thr[t].arc # 0

\* C16: when no thread calls an operation on a key it holds a guard for,
\* there is no deadlock: whenever a thread is inside a call, some thread can
\* take a step; in particular a thread that holds a write guard on k and
\* creates another key j with set is not stopped by threads that wait in get
\* or delete on k.
C16_NoDeadlock ==
    (\E t \in Threads : Pending(t)) => \E t \in Threads : CanMove(t)

\* ------------------------------------------------------------------ C17
\* C17: value and counter of an entry change together for the readers. In
\* every step, for every entry: with no writer before and after, a changed
\* value comes with a changed counter, and nothing changes while a reader
\* holds the shared lock; while a writer holds the lock the counter stays and
\* the value changes only through a write guard marked as modified; the step
\* that releases the writer leaves the value and changes the counter exactly
\* when the guard is marked; the step that takes the lock changes neither.
C17_AtomicChange ==
    [][\A e \in DOMAIN ent \cap DOMAIN ent' :
           LET x == ent[e]
               y == ent'[e]
               same == y.data = x.data /\ y.sequence_id = x.sequence_id
           IN  /\ (~x.writer /\ ~y.writer) =>
                      /\ y.data # x.data => y.sequence_id # x.sequence_id
                      /\ (x.readers > 0) => same
               /\ (x.writer /\ y.writer) =>
                      /\ y.sequence_id = x.sequence_id
                      /\ y.data # x.data =>
                             \E g \in DOMAIN guards' : /\ guards'[g].entry = e
                                                       /\ guards'[g].kind = "write"
                                                       /\ guards'[g].modified
               /\ (x.writer /\ ~y.writer) =>
                      /\ y.data = x.data
                      /\ \E g \in WriteGuardsOn(e) :
                             guards[g].modified <=> (y.sequence_id # x.sequence_id)
               /\ (~x.writer /\ y.writer) => same /\ x.readers = 0
      ]_vars

\* a thread has written through its write guard, the counter still has its
\* old value, and the other thread spins in get or sequence_id on that entry
C17_Witness ==
    \E t, u \in Threads :
        /\ thr[t].guard \in DOMAIN guards
        /\ guards[thr[t].guard].kind = "write"
        /\ guards[thr[t].guard].modified
        /\ thr[u].pc = "wait_entry"
        /\ thr[u].at[1].op \in {"get", "sequence_id"}
        /\ <<thr[u].at[1].board, thr[u].at[1].key>> = thr[t].gkey

\* ------------------------------------------------------------------ C21
\* C21: contains_key routes like the value operations: at every board and
\* for every key it is true exactly when the routing of the key ends at a
\* board whose database holds the resolved name, which is exactly when
\* sequence_id does not return an error (it returns the counter, or waits for
\* a write guard and then returns it).
C21_ContainsKeyRoutes ==
    \A b \in Boards, key \in OpKeys :
        LET rt == route("sequence_id", b, key)
            s == sequence_id(World, b, key).res
        IN  /\ contains_key(World, b, key) <=> (~rt.done /\ rt.key \in DOMAIN db[rt.board])
            /\ contains_key(World, b, key) <=> ~IsErr(s)
            /\ s.tag = "Blocked" => ~can_read(ent[db[rt.board][rt.key]])

\* the leaf sees an entry of another board through a rule or autoremap, and
\* a key that is routed nowhere is reported missing by both
C21_Witness ==
    /\ K \notin DOMAIN db["L2"]
    /\ contains_key(World, "L2", K)
    /\ sequence_id(World, "L2", K).res.tag = "Ok"
    /\ ~contains_key(World, "L2", T)
    /\ \E b \in Boards : remappings[b] # <<>>

\* ------------------------------------------------------------------ C22
\* root_access_no_remapping: root = new(), level1 = with(Some(root), None,
\* false), level2 = with(Some(level1), None, false); every board can hold
\* its own entry
MaxEntriesChain == 3
ChainKeys == {K, Top(K)}

InitChain ==
    /\ parent = [b \in Boards |-> CASE b = "root" -> NoBoard [] b = "L1" -> "root" [] OTHER -> "L1"]
    /\ remappings = [b \in Boards |-> <<>>]
    /\ autoremap = [b \in Boards |-> FALSE]
    /\ db = [b \in Boards |-> <<>>]
    /\ ent = <<>>
    /\ guards = <<>>
    /\ handles = [e \in 1..MaxEntriesChain |-> 0]
    /\ last_drop = None
    /\ cap = [entries |-> MaxEntriesChain, guards |-> MaxGuards, readers |-> MaxReaders, handles |-> MaxHandles]
    /\ board_lock = [b \in Boards |-> FreeLock]
    /\ thr = [t \in Threads |-> IdleThread]

\* the calls of the test
NextChain ==
    \/ \E b \in Boards, key \in ChainKeys : ContainsKey(b, key)
    \/ \E b \in Boards, key \in ChainKeys, ty \in Types : Contains(b, key, ty)
    \/ \E b \in Boards, key \in ChainKeys, ty \in Types : Delete(b, key, ty)
    \/ \E b \in Boards, key \in ChainKeys, ty \in Types : Get(b, key, ty)
    \/ \E b \in Boards, key \in ChainKeys : SequenceId(b, key)
    \/ \E b \in Boards, key \in ChainKeys, value \in Values : Set(b, key, value)

SpecChain == InitChain /\ [][NextChain]_vars

\* board x has the keys and the entries in w that it has now
BoardUnchanged(w, x) ==
    /\ w.db[x] = db[x]
    /\ \A key \in DOMAIN db[x] : /\ db[x][key] \in DOMAIN w.ent
                                 /\ w.ent[db[x][key]] = ent[db[x][key]]

\* set and delete, the calls that change a board
ChangingCalls == {c \in Calls : c.op \in {"set", "delete"}}

\* C22: in a chain without rules and without autoremap the key k of a child
\* and the key k of the root are independent: set or delete of "k" at the
\* child leaves presence, value and counter of the root's k, read as "@k",
\* as they are and changes no other board; set or delete of "@k" at the child
\* changes no board but the root, so no intermediate board gets k.
C22_ChildAndRootIndependent ==
    \A child \in Boards \ {"root"}, c \in ChangingCalls :
        LET plain == Invoke(c, World, child, K)
            top == Invoke(c, World, child, Top(K))
        IN  /\ \A x \in Boards \ {child} : BoardUnchanged(plain.w, x)
            /\ contains_key(plain.w, child, Top(K)) = contains_key(World, child, Top(K))
            /\ get(plain.w, child, Top(K), c.ty).res = get(World, child, Top(K), c.ty).res
            /\ sequence_id(plain.w, child, Top(K)).res = sequence_id(World, child, Top(K)).res
            /\ \A x \in Boards \ {"root"} : BoardUnchanged(top.w, x)
            /\ top = Invoke(c, World, "root", K)

\* root and level2 hold k with different values and counters, level1 holds
\* none, and a set of "k" at level2 succeeds
C22_Witness ==
    /\ K \in DOMAIN db["root"] /\ K \in DOMAIN db["L2"] /\ K \notin DOMAIN db["L1"]
    /\ ent[db["root"][K]].data # ent[db["L2"][K]].data
    /\ ent[db["root"][K]].sequence_id = 2
    /\ ent[db["L2"][K]].sequence_id = 1
    /\ set(World, "L2", K, [ty |-> "i32", v |-> 2]).res.tag = "Ok"
    /\ delete(World, "L2", Top(K), "i32").res.tag = "Ok"

\* ------------------------------------------------------------------ C23
\* the entry a set with key at b would update, if there is one
TargetEntry(b, key) ==
    LET rt == route("set", b, key)
    IN  IF ~rt.done /\ rt.key \in DOMAIN db[rt.board] THEN Some(db[rt.board][rt.key]) ELSE None

\* C23: the type of an entry never changes while it lives. No call changes
\* the type of an entry; a set with a value of another type than the stored
\* one fails with WrongType (once the entry is free of guards) and leaves
\* value and counter as they are; after a successful set with a value of type
\* T, contains::<T> is true and contains::<U> fails with WrongType for every
\* other type U.
C23_TypeIsStable ==
    /\ \A c \in Calls, b \in Boards, key \in OpKeys :
           LET r == Invoke(c, World, b, key)
           IN  \A e \in DOMAIN ent \cap DOMAIN r.w.ent : r.w.ent[e].data.ty = ent[e].data.ty
    /\ \A b \in Boards, key \in OpKeys, value \in Values :
           LET r == set(World, b, key, value)
               te == TargetEntry(b, key)
           IN  /\ (te # None /\ ent[te[1]].data.ty # value.ty) =>
                      /\ r.w = World
                      /\ can_write(ent[te[1]]) => r.res.tag = "WrongType"
                      /\ ~can_write(ent[te[1]]) => r.res = Blocked
               /\ r.res.tag = "Ok" =>
                      \A ty \in Types :
                          contains(r.w, b, key, ty).res =
                              IF ty = value.ty THEN Ok(TRUE) ELSE Err("WrongType", <<route("set", b, key).key>>)

\* an entry of type i32 that was updated once: a set with a String fails with
\* WrongType, a set with an i32 succeeds
C23_Witness ==
    \E b \in Boards :
        /\ K \in DOMAIN db[b]
        /\ ent[db[b][K]].data.ty = "i32"
        /\ ent[db[b][K]].sequence_id = 2
        /\ set(World, b, K, [ty |-> "String", v |-> 1]).res.tag = "WrongType"
        /\ set(World, b, K, [ty |-> "i32", v |-> 2]).res.tag = "Ok"
        /\ contains(World, b, K, "String").res.tag = "WrongType"

\* ------------------------------------------------------------------ C24
\* C24: Databoard::with refuses rules without a parent, so no board has a
\* non-empty rule table and no parent.
C24_NoRulesWithoutParent ==
    \A b \in Boards : remappings[b] # <<>> => parent[b] # NoBoard

\* ------------------------------------------------------------------ Remappings
\* the rule table built for level1 before it is handed to Databoard::with
\* is remappings["L1"]
MaxRules == 4
Sources == {K, T, test}
SelfTarget == <<"{", "=", "}">>
Targets == {Lit, Ptr(T), SelfTarget}

HasSource(rules, key) == \E i \in 1..Len(rules) : rules[i][1] = key
FirstIndex(rules, key) ==
    CHOOSE i \in 1..Len(rules) : rules[i][1] = key /\ \A j \in 1..(i - 1) : rules[j][1] # key

\* a variant of Remappings::add that replaces the target of a present source;
\* C25_AddRefusesDuplicate does not hold with it
add_replacing(rules, key, remap_to) ==
    IF HasSource(rules, key)
    THEN [res |-> Ok(<<>>), rules |-> [rules EXCEPT ![FirstIndex(rules, key)][2] = remap_to]]
    ELSE [res |-> Ok(<<>>), rules |-> Append(rules, <<key, remap_to>>)]

\* Remappings::add
add(rules, key, remap_to) ==
    IF HasSource(rules, key)
    THEN [res |-> Err("AlreadyRemapped", <<key, rules[FirstIndex(rules, key)][2]>>), rules |-> rules]
    ELSE [res |-> Ok(<<>>), rules |-> Append(rules, <<key, remap_to>>)]

\* a variant of Remappings::overwrite that always appends;
\* C26_OneRulePerSource does not hold with it
overwrite_appending(rules, key, remapped) == Append(rules, <<key, remapped>>)

\* Remappings::overwrite
overwrite(rules, key, remapped) ==
    IF HasSource(rules, key)
    THEN [rules EXCEPT ![FirstIndex(rules, key)][2] = remapped]
    ELSE Append(rules, <<key, remapped>>)

\* Remappings::remap
remap(rules, name) ==
    IF HasSource(rules, name)
    THEN IF rules[FirstIndex(rules, name)][2] = SelfTarget THEN name
         ELSE rules[FirstIndex(rules, name)][2]
    ELSE name

InitRemap ==
    /\ parent = [b \in Boards |-> CASE b = "root" -> NoBoard [] b = "L1" -> "root" [] OTHER -> "L1"]
    /\ remappings = [b \in Boards |-> <<>>]
    /\ autoremap = [b \in Boards |-> FALSE]
    /\ db = [b \in Boards |-> <<>>]
    /\ ent = <<>>
    /\ guards = <<>>
    /\ handles = [e \in 1..MaxEntries |-> 0]
    /\ last_drop = None
    /\ cap = [entries |-> MaxEntries, guards |-> MaxGuards, readers |-> MaxReaders, handles |-> MaxHandles]
    /\ board_lock = [b \in Boards |-> FreeLock]
    /\ thr = [t \in Threads |-> IdleThread]

TableBecomes(rules) ==
    /\ Len(rules) <= MaxRules
    /\ remappings' = [remappings EXCEPT !["L1"] = rules]
    /\ UNCHANGED <<parent, autoremap, db, ent, guards, handles, last_drop, cap, board_lock, thr>>

RemappingsAdd(key, remap_to) == TableBecomes(add(remappings["L1"], key, remap_to).rules)

RemappingsOverwrite(key, remapped) == TableBecomes(overwrite(remappings["L1"], key, remapped))

RemappingsFind(key) ==
    /\ find(remappings["L1"], key) \in {None} \cup {Some(t) : t \in Targets \cup {Ptr(s) : s \in Sources}}
    /\ UNCHANGED vars

RemappingsRemap(name) ==
    /\ remap(remappings["L1"], name) \in Targets \cup Sources
    /\ UNCHANGED vars

NextRemap ==
    \/ \E key \in Sources, remap_to \in Targets : RemappingsAdd(key, remap_to)
    \/ \E key \in Sources, remapped \in Targets : RemappingsOverwrite(key, remapped)
    \/ \E key \in Sources : RemappingsFind(key)
    \/ \E name \in Sources : RemappingsRemap(name)

SpecRemap == InitRemap /\ [][NextRemap]_vars

\* ------------------------------------------------------------------ C25
\* C25: add(source, target) fails with AlreadyRemapped when a rule with that
\* source is present and leaves the rule list as it is; otherwise it succeeds
\* and the list is the old one with the rule appended at the end.
C25_AddRefusesDuplicate ==
    \A key \in Sources, remap_to \in Targets :
        LET rules == remappings["L1"]
            r == add(rules, key, remap_to)
        IN  IF \E i \in 1..Len(rules) : rules[i][1] = key
            THEN r.res.tag = "AlreadyRemapped" /\ r.rules = rules
            ELSE /\ r.res = Ok(<<>>)
                 /\ Len(r.rules) = Len(rules) + 1
                 /\ SubSeq(r.rules, 1, Len(rules)) = rules
                 /\ r.rules[Len(r.rules)] = <<key, remap_to>>

\* a table of two rules: add for the first source is refused, add for the
\* missing source is accepted
C25_Witness ==
    /\ Len(remappings["L1"]) = 2
    /\ remappings["L1"][1][1] = K
    /\ add(remappings["L1"], K, Ptr(T)).res.tag = "AlreadyRemapped"
    /\ \E key \in Sources : add(remappings["L1"], key, Lit).res = Ok(<<>>)

\* ------------------------------------------------------------------ C26
\* what find reports for a stored target
Reported(key, target) == IF target = SelfTarget THEN Ptr(key) ELSE target

\* the table holds at most one rule per source; overwrite on a present source
\* replaces its target in place, on an absent source it appends; add and
\* overwrite leave what find returns for every other source
TableStructure ==
    LET rules == remappings["L1"]
    IN  /\ \A i, j \in 1..Len(rules) : rules[i][1] = rules[j][1] => i = j
        /\ \A key \in Sources : find(rules, key) = None <=> ~\E i \in 1..Len(rules) : rules[i][1] = key
        /\ \A key \in Sources, target \in Targets :
               LET o == overwrite(rules, key, target)
                   a == add(rules, key, target)
               IN  /\ IF \E i \in 1..Len(rules) : rules[i][1] = key
                      THEN /\ Len(o) = Len(rules)
                           /\ \A i \in 1..Len(rules) :
                                  o[i] = IF rules[i][1] = key THEN <<key, target>> ELSE rules[i]
                      ELSE o = Append(rules, <<key, target>>)
                   /\ \A other \in Sources \ {key} :
                          /\ find(o, other) = find(rules, other)
                          /\ find(a.rules, other) = find(rules, other)
                   /\ a.res.tag # "Ok" => find(a.rules, key) = find(rules, key)

\* C26 as stated: with the above, find(s) after a successful add or an
\* overwrite for s returns the target that call stored.
C26_FindReturnsStored ==
    /\ TableStructure
    /\ \A key \in Sources, target \in Targets :
           LET rules == remappings["L1"]
               a == add(rules, key, target)
           IN  /\ find(overwrite(rules, key, target), key) = Some(target)
               /\ a.res.tag = "Ok" => find(a.rules, key) = Some(target)

\* C26 amended: find(s) returns the stored target, and "{s}" when the stored
\* target is "{=}".
C26_OneRulePerSource ==
    /\ TableStructure
    /\ \A key \in Sources, target \in Targets :
           LET rules == remappings["L1"]
               a == add(rules, key, target)
           IN  /\ find(overwrite(rules, key, target), key) = Some(Reported(key, target))
               /\ a.res.tag = "Ok" => find(a.rules, key) = Some(Reported(key, target))

\* three rules, the one in the middle was overwritten: find returns its new
\* target, and an overwrite for it keeps the table at three rules
C26_Witness ==
    LET rules == remappings["L1"]
    IN  /\ Len(rules) = 3
        /\ rules[2] = <<K, Ptr(T)>>
        /\ rules[1][2] = Lit
        /\ find(rules, K) = Some(Ptr(T))
        /\ Len(overwrite(rules, K, Lit)) = 3
        /\ find(overwrite(rules, K, Lit), K) = Some(Lit)

\* ------------------------------------------------------------------ C27
\* level1 = with(Some(root), rules, false) with the rule k -> {=} or the
\* rule k -> {k}; level2 = with(Some(level1), None, false)
InitSelf ==
    /\ parent = [b \in Boards |-> CASE b = "root" -> NoBoard [] b = "L1" -> "root" [] OTHER -> "L1"]
    /\ \E target \in {SelfTarget, Ptr(K)} :
           remappings = [b \in Boards |-> IF b = "L1" THEN << <<K, target>> >> ELSE <<>>]
    /\ autoremap = [b \in Boards |-> FALSE]
    /\ db = [b \in Boards |-> <<>>]
    /\ ent = <<>>
    /\ guards = <<>>
    /\ handles = [e \in 1..MaxEntries |-> 0]
    /\ last_drop = None
    /\ cap = [entries |-> MaxEntries, guards |-> MaxGuards, readers |-> MaxReaders, handles |-> MaxHandles]
    /\ board_lock = [b \in Boards |-> FreeLock]
    /\ thr = [t \in Threads |-> IdleThread]

SpecSelf == InitSelf /\ [][Next]_vars

\* C27: for a rule with source s whose stored target is "{=}", find(s)
\* returns "{s}" and remap(s) returns s, and every operation on s at the board
\* gives what the same operation on s at the parent gives, which is also what
\* it gives with the explicit rule s -> {s}.
C27_SelfBinding ==
    \A b \in Boards, s \in Names :
        /\ (HasRule(b, s) /\ RuleTarget(b, s) = SelfTarget) =>
               /\ find(remappings[b], s) = Some(<<"{">> \o s \o <<"}">>)
               /\ remap(remappings[b], s) = s
        /\ (HasRule(b, s) /\ RuleTarget(b, s) \in {SelfTarget, <<"{">> \o s \o <<"}">>}) =>
               \A c \in Calls : Invoke(c, World, b, s) = Invoke(c, World, parent[b], s)

\* level1 has the rule k -> {=} and no entry, the root has k updated once:
\* level1 reads the root's k
C27_Witness ==
    /\ remappings["L1"] = << <<K, SelfTarget>> >>
    /\ K \in DOMAIN db["root"]
    /\ db["L1"] = <<>>
    /\ sequence_id(World, "L1", K).res = Ok(2)
    /\ get(World, "L1", K, "i32").res = get(World, "root", K, "i32").res
    /\ get(World, "L1", K, "i32").res.tag = "Ok"

\* ------------------------------------------------------------------ keys
\* the helper functions of remappings.rs applied to the target of a rule:
\* every string of at most MaxKeyLen characters of KeyChars, and the JSON
\* shaped strings of tests/remappings.rs
MaxKeyLen == 3

KeyChars == {"{", "}", "k", "_", "@"}

Json == <<"{", "\"", "x", "\"", ":", "1", "1", ",", "\"", "y", "\"", ":", "1", "2", "}">>

JsonPrefixed == <<"j", "s", "o", "n", ":", "{", "\"", "x", "\"", ":", "9", ",", "\"", "y", "\"", ":", "1", "0", "}">>

KeyStrings == UNION {[1..n -> KeyChars] : n \in 0..MaxKeyLen} \cup {Json, JsonPrefixed}

\* the target stored for k at level1
StoredTarget == remappings["L1"][1][2]

IsConstAssignment ==
    /\ remappings["L1"] # <<>>
    /\ is_const_assignment(StoredTarget) \in BOOLEAN
    /\ UNCHANGED vars

IsBoardPointer ==
    /\ remappings["L1"] # <<>>
    /\ is_board_pointer(StoredTarget) \in BOOLEAN
    /\ UNCHANGED vars

StripBoardPointer ==
    /\ remappings["L1"] # <<>>
    /\ Len(strip_board_pointer(StoredTarget)) <= 1
    /\ UNCHANGED vars

CheckBoardPointer ==
    /\ remappings["L1"] # <<>>
    /\ check_board_pointer(StoredTarget).ok \in BOOLEAN
    /\ UNCHANGED vars

NextKeys ==
    \/ \E remapped \in KeyStrings : RemappingsOverwrite(K, remapped)
    \/ IsConstAssignment
    \/ IsBoardPointer
    \/ StripBoardPointer
    \/ CheckBoardPointer
    \/ SequenceId("L1", K)

SpecKeys == InitRemap /\ [][NextKeys]_vars

\* ------------------------------------------------------------------ C28
\* C28: is_const_assignment(s) is true unless s both starts with '{' and ends
\* with '}', so it is the negation of is_board_pointer(s); a string with only
\* one of the two braces is a constant assignment.
C28_ConstUnlessPointer ==
    remappings["L1"] # <<>> =>
        /\ is_const_assignment(StoredTarget)
               = ~(starts_with(StoredTarget, <<"{">>) /\ ends_with(StoredTarget, <<"}">>))
        /\ is_const_assignment(StoredTarget) = ~is_board_pointer(StoredTarget)

\* ------------------------------------------------------------------ C29
\* C29: the JSON shaped strings are literal constants: is_const_assignment is
\* true, is_board_pointer is false, strip_board_pointer and check_board_pointer
\* report no board pointer, and as the target of a rule they make the
\* operation on the source fail with Assignment.
C29_JsonIsConstant ==
    (remappings["L1"] # <<>> /\ StoredTarget \in {Json, JsonPrefixed}) =>
        /\ is_const_assignment(StoredTarget)
        /\ ~is_board_pointer(StoredTarget)
        /\ strip_board_pointer(StoredTarget) = None
        /\ ~check_board_pointer(StoredTarget).ok
        /\ sequence_id(World, "L1", K).res.tag = "Assignment"

\* ------------------------------------------------------------------ C30
\* C30: set("_k", v) on a board that has no entry k creates k with sequence
\* id 1 and returns none; on a board that has k it replaces the value and
\* returns the old one; it never fails with NotFound.
C30_LocalSetCreates ==
    \A b \in Boards, key \in Names, value \in Values :
        LET r == set(World, b, Local(key), value)
        IN  /\ r.res.tag # "NotFound"
            /\ (key \notin DOMAIN db[b] /\ r.res # Full) =>
                   /\ r.res = Ok(None)
                   /\ key \in DOMAIN r.w.db[b]
                   /\ sequence_id(r.w, b, Local(key)).res = Ok(1)
            /\ (key \in DOMAIN db[b] /\ r.res.tag = "Ok") =>
                   /\ r.res = Ok(Some(ent[db[b][key]].data))
                   /\ r.w.ent[r.w.db[b][key]].data = value

\* ------------------------------------------------------------------ C31
MaxEntriesPtr == 2

\* level2 = with(Some(level1), rules, false) with the rules k -> {@t} and
\* t -> {_t}; level1 with or without a rule of its own and with autoremap on
\* or off
InitPtr ==
    /\ parent = [b \in Boards |-> CASE b = "root" -> NoBoard [] b = "L1" -> "root" [] OTHER -> "L1"]
    /\ \E level1 \in {<<>>, << <<K, Ptr(T)>> >>} :
           remappings = [b \in Boards |-> CASE b = "root" -> <<>>
                                            [] b = "L1" -> level1
                                            [] OTHER -> << <<K, Ptr(Top(T))>>, <<T, Ptr(Local(T))>> >>]
    /\ \E a \in BOOLEAN : autoremap = [b \in Boards |-> b = "L1" /\ a]
    /\ db = [b \in Boards |-> <<>>]
    /\ ent = <<>>
    /\ guards = <<>>
    /\ handles = [e \in 1..MaxEntriesPtr |-> 0]
    /\ last_drop = None
    /\ cap = [entries |-> MaxEntriesPtr, guards |-> MaxGuards, readers |-> MaxReaders, handles |-> MaxHandles]
    /\ board_lock = [b \in Boards |-> FreeLock]
    /\ thr = [t \in Threads |-> IdleThread]

\* the value operations, with plain keys, on every board
NextPtr ==
    \/ \E b \in Boards, key \in Names : ContainsKey(b, key)
    \/ \E b \in Boards, key \in Names, ty \in Types : Contains(b, key, ty)
    \/ \E b \in Boards, key \in Names, ty \in Types : Delete(b, key, ty)
    \/ \E b \in Boards, key \in Names, ty \in Types : Get(b, key, ty)
    \/ \E b \in Boards, key \in Names : SequenceId(b, key)
    \/ \E b \in Boards, key \in Names, value \in Values : Set(b, key, value)

SpecPtr == InitPtr /\ [][NextPtr]_vars

\* C31: with a parent, a rule s -> {@n} at b makes every operation on s at b
\* give what the operation on n at the root of the chain gives, and a rule
\* s -> {_n} makes it give what the Database method gives on the local
\* database of b's parent under n, whatever rules and autoremap flag the
\* parent has: no other board changes, and the value operations fail with
\* NotFound when the parent's database lacks n.
C31_PointerPrefixes ==
    \A b \in Boards, s \in Names, n \in Names, c \in Calls :
        (HasRule(b, s) /\ parent[b] # NoBoard) =>
            LET r == Invoke(c, World, b, s)
                p == parent[b]
            IN  /\ RuleTarget(b, s) = Ptr(Top(n)) =>
                       /\ r = Invoke(c, World, root(b), n)
                       /\ \A o \in Boards \ {root(b)} : BoardUnchanged(r.w, o)
                /\ RuleTarget(b, s) = Ptr(Local(n)) =>
                       LET l == LocalOp(c, Isolated(World, p), p, n)
                       IN  /\ r.res = l.res
                           /\ r.w.db[p] = l.w.db[p]
                           /\ \A key \in DOMAIN r.w.db[p] :
                                  r.w.ent[r.w.db[p][key]] = l.w.ent[r.w.db[p][key]]
                           /\ \A o \in Boards \ {p} : BoardUnchanged(r.w, o)
                           /\ (n \notin DOMAIN db[p] /\ c.op \notin {"contains_key", "contains"})
                                  => r.res.tag = "NotFound"

\* the root and level1 both hold t, level1 has a rule of its own: k at level2
\* reads the root's t, t at level2 reads level1's t
C31_Witness ==
    /\ remappings["L1"] # <<>>
    /\ T \in DOMAIN db["root"]
    /\ T \in DOMAIN db["L1"]
    /\ db["root"][T] # db["L1"][T]
    /\ ent[db["root"][T]].data # ent[db["L1"][T]].data
    /\ get(World, "L2", K, "i32").res = Ok(ent[db["root"][T]].data)
    /\ get(World, "L2", T, "i32").res = Ok(ent[db["L1"][T]].data)

\* ------------------------------------------------------------------ C32
\* C32: on a board without parent that has a rule s -> {name}, every
\* operation on s other than contains_key fails with NoParent and leaves
\* every board as it is; none of them reads or writes the board's own
\* database.
C32_NoParent ==
    \A b \in Boards, s \in Names, c \in Calls :
        (parent[b] = NoBoard /\ HasRule(b, s) /\ Braced(RuleTarget(b, s)) /\ c.op # "contains_key") =>
            /\ Invoke(c, World, b, s).res.tag = "NoParent"
            /\ Invoke(c, World, b, s).w = World
            /\ Invoke(c, Isolated(World, "L1"), b, s).res = Invoke(c, World, b, s).res

\* the root has the rule k -> {t} and holds t: get on k fails with NoParent
\* although get on t succeeds
C32_Witness ==
    /\ parent["root"] = NoBoard
    /\ HasRule("root", K)
    /\ RuleTarget("root", K) = Ptr(T)
    /\ T \in DOMAIN db["root"]
    /\ get(World, "root", T, "i32").res.tag = "Ok"
    /\ get(World, "root", K, "i32").res.tag = "NoParent"
    /\ set(World, "root", K, AnyValue).res.tag = "NoParent"

\* ------------------------------------------------------------------ C33
\* C33: a blocking get_ref or get_mut_ref on an existing entry of the
\* requested type gets its guard when no conflicting guard on the entry is
\* left (no write guard for get_ref, no guard at all for get_mut_ref),
\* whatever guard requests succeeded or failed before: it does not wait on an
\* entry that no guard holds.
C33_GuardOnceFree ==
    \A b \in Boards, key \in OpKeys, e \in DOMAIN ent :
        ResolvesTo(World, b, key, e) =>
            LET ty == ent[e].data.ty
            IN  /\ (\A g \in DOMAIN guards : guards[g].entry = e => guards[g].kind # "write")
                       => get_ref(World, b, key, ty).res # Blocked
                /\ (\A g \in DOMAIN guards : guards[g].entry # e)
                       => get_mut_ref(World, b, key, ty).res # Blocked

\* ------------------------------------------------------------------ C34
\* C34: while a write guard on the entry of key k is held, get, set, delete
\* and sequence_id on k (with any type and value) do not return: each of them
\* waits for the lock of the entry, returns no error and changes nothing, so
\* the thread that holds the guard and makes the call waits forever.
C34_SelfDeadlock ==
    \A g \in DOMAIN guards : guards[g].kind = "write" =>
        \A b \in Boards, key \in OpKeys : ResolvesTo(World, b, key, guards[g].entry) =>
            \A c \in Calls : c.op \in {"get", "set", "delete", "sequence_id"} =>
                /\ Invoke(c, World, b, key).res = Blocked
                /\ Invoke(c, World, b, key).w = World

\* a write guard on the root's k is held and level2 reaches k through its
\* parents
C34_Witness ==
    \E g \in DOMAIN guards :
        /\ guards[g].kind = "write"
        /\ K \in DOMAIN db["root"]
        /\ db["root"][K] = guards[g].entry
        /\ ResolvesTo(World, "L2", K, guards[g].entry)
        /\ get(World, "L2", K, "i32").res = Blocked
        /\ delete(World, "root", K, "i32").res = Blocked

\* ------------------------------------------------------------------ C35
MaxPrefix == 2

\* the keys of the calls: a plain key behind up to MaxPrefix characters "@"
\* and "_"
Prefixes == UNION {[1..n -> {"@", "_"}] : n \in 0..MaxPrefix}
RouteKeys == {p \o n : p \in Prefixes, n \in Names}

\* the calls that take no guard and no handle
RouteCalls == {c \in Calls : c.op \in {"contains_key", "delete", "get", "sequence_id"}}
                  \cup {[op |-> "set", ty |-> AnyValue.ty, value |-> AnyValue]}

\* the number of parents above b
RECURSIVE Depth(_)
Depth(b) == IF parent[b] = NoBoard THEN 0 ELSE 1 + Depth(parent[b])

\* thread A calls a method of board b with key
RouteStart(b, key) ==
    /\ thr["A"].pc = "idle"
    /\ thr' = [thr EXCEPT !["A"] = [@ EXCEPT !.pc = "routing", !.at = Some(Forward(b, key))]]
    /\ UNCHANGED <<parent, remappings, autoremap, db, ent, guards, handles, last_drop, cap, board_lock>>

\* the method calls itself on the root or on the parent
RouteForward ==
    /\ thr["A"].pc = "routing"
    /\ ~route_step(thr["A"].at[1].board, thr["A"].at[1].key).done
    /\ thr' = [thr EXCEPT !["A"] = [@ EXCEPT !.at = Some(route_step(thr["A"].at[1].board, thr["A"].at[1].key))]]
    /\ UNCHANGED <<parent, remappings, autoremap, db, ent, guards, handles, last_drop, cap, board_lock>>

\* the method ends: with the Database method on the board it reached, or
\* with an error
RouteEnd(c) ==
    /\ thr["A"].pc = "routing"
    /\ route_step(thr["A"].at[1].board, thr["A"].at[1].key).done
    /\ LET r == Invoke(c, World, thr["A"].at[1].board, thr["A"].at[1].key)
       IN  /\ r.res.tag \notin {"Blocked", "Full"}
           /\ db' = r.w.db
           /\ ent' = r.w.ent
           /\ guards' = r.w.guards
           /\ handles' = r.w.handles
    /\ thr' = [thr EXCEPT !["A"] = IdleThread]
    /\ last_drop' = None
    /\ UNCHANGED <<parent, remappings, autoremap, cap, board_lock>>

NextRoute ==
    \/ \E b \in Boards, key \in RouteKeys : RouteStart(b, key)
    \/ RouteForward
    \/ \E c \in RouteCalls : RouteEnd(c)

\* a method that was called goes on running
SpecRoute == Init /\ [][NextRoute]_vars /\ WF_vars(RouteForward \/ \E c \in RouteCalls : RouteEnd(c))

Routing == thr["A"].pc = "routing"

\* the step machine and the methods agree: a call gives at a position what
\* it gives at the position the step leads to, and ends where the step ends
RouteStepAgrees ==
    \A b \in Boards, key \in RouteKeys, c \in Calls :
        LET st == route_step(b, key)
        IN  IF st.done
            THEN route(c.op, b, key).done \/ route(c.op, b, key).board = b
            ELSE c.op # "try_get_ref" => Invoke(c, World, b, key) = Invoke(c, World, st.board, st.key)

\* C35: without lock contention every call ends, for every key and every
\* board of the chain: a routing step leads to a board with fewer parents, or
\* stays on the board with a shorter key, or ends the call; no board is its
\* own ancestor, and no step changes the parent, the rules or the autoremap
\* flag of a board.
C35_Terminates ==
    /\ [](\A b \in Boards : b \notin Closure({parent[b]} \ {NoBoard}))
    /\ [][/\ parent' = parent
          /\ remappings' = remappings
          /\ autoremap' = autoremap
          /\ (Routing /\ Routing') =>
                 \/ Depth(thr["A"].at[1].board)' < Depth(thr["A"].at[1].board)
                 \/ /\ thr["A"].at[1].board' = thr["A"].at[1].board
                    /\ Len(thr["A"].at[1].key)' < Len(thr["A"].at[1].key)]_vars
    /\ Routing ~> ~Routing

\* a call with "@@k" on level2, which has a rule for k, has reached the root
\* with "@k" left
C35_Witness ==
    /\ Routing
    /\ thr["A"].at[1] = Forward("root", Top(K))
    /\ remappings["L2"] # <<>>
    /\ autoremap["L1"]
    /\ db["L1"] = <<>>
    /\ K \in DOMAIN db["root"]

\* ------------------------------------------------------------------ C36
\* C36: when each of the two threads has made one call, a set on the plain
\* key k that was absent, both calls succeed under every interleaving: the
\* lock section a set is about to run (update or create) does not fail with
\* AlreadyExists or NotFound, and when both calls are over the entry has been
\* created once and updated once, so its sequence id is 2.
C36_ConcurrentSetsSucceed ==
    (\A t \in Threads : thr[t].calls = 1) =>
        /\ \A t \in Threads :
               (thr[t].pc \in {"wait_board", "wait_entry"} /\ thr[t].phase \in {"update", "create"})
                   => LocalStep(thr[t], World).res.tag \notin {"AlreadyExists", "NotFound"}
        /\ \A b \in ConcBoards, key \in ConcKeys :
               (/\ \A t \in Threads : thr[t].pc = "idle" /\ thr[t].guard = 0
                /\ key \in DOMAIN db[b]
                /\ ent[db[b][key]].readers = 0
                /\ ~ent[db[b][key]].writer)
                   => ent[db[b][key]].sequence_id \in {1, 2}

C38_RecreatedStartsAtOne ==
    \A b \in Boards, key \in OpKeys, ty \in Types, value \in Values :
        LET d == delete(World, b, key, ty)
            s == set(d.w, b, key, value)
        IN  d.res.tag = "Ok" =>
                /\ ~route("set", b, key).direct => s.res = Ok(None)
                /\ s.res = Ok(None) =>
                       /\ sequence_id(s.w, b, key).res = Ok(1)
                       /\ get(s.w, b, key, value.ty).res = Ok(value)
                       /\ contains(s.w, b, key, value.ty).res = Ok(TRUE)

\* the root's k is an i32 that was updated once; deleted and set again with a
\* String it has sequence id 1
C38_Witness ==
    /\ K \in DOMAIN db["root"]
    /\ ent[db["root"][K]].sequence_id = 2
    /\ ent[db["root"][K]].data.ty = "i32"
    /\ delete(World, "L2", Top(K), "i32").res.tag = "Ok"
    /\ LET w == delete(World, "L2", Top(K), "i32").w
           s == set(w, "L2", Top(K), [ty |-> "String", v |-> 1])
       IN  /\ s.res = Ok(None)
           /\ sequence_id(s.w, "root", K).res = Ok(1)
           /\ get(s.w, "root", K, "String").res.tag = "Ok"

====
